---- MODULE Spec2Model ----
(***************************************************************************)
(* Model of dotcor's transactional filesystem engine: the Operation /      *)
(* Transaction abstraction (internal/core/transaction.go), the file lock   *)
(* (internal/core/lock.go) and the filesystem primitives they are built on *)
(* (internal/fs/fs.go, internal/fs/symlink.go, internal/config).           *)
(*                                                                         *)
(* The specifications share the variables:                                 *)
(*   SpecTx       - one Transaction driven through Execute / ExecuteAll /  *)
(*                  Rollback / Commit over a small filesystem;             *)
(*   SpecLock     - processes stepping through AcquireLock / ReleaseLock,  *)
(*                  one system call per step;                              *)
(*   SpecWithLock - the same processes calling WithLock and IsStale;       *)
(*   SpecBackup   - CreateBackup / RestoreBackup / CleanOldBackups and the *)
(*                  add command's processAddFile (internal/core/backup.go, *)
(*                  cmd/dotcor/sync.go);                                   *)
(*   SpecSymlink  - fs.CreateSymlink / fs.RemoveSymlink;                   *)
(*   SpecRel      - config.ComputeRelativeSymlink on pairs of paths;       *)
(*   SpecNorm     - config.NormalizePath / config.ExpandPath on strings;   *)
(*   SpecOps      - one file Operation: Do, then Undo;                     *)
(*   SpecClean    - CleanOldBackups on a tree with undeletable files;      *)
(*   SpecRemove   - the remove command's processRemoveFile;                *)
(*   SpecAdd      - the add command: runAdd with git.AutoCommit;           *)
(*   SpecCmd      - processes running commands that take, ignore or        *)
(*                  repair the lock (add, clone, doctor --fix).            *)
(***************************************************************************)
EXTENDS Integers, Sequences, FiniteSets, TLC

\* ------------------------------------------------------------------------
\* Paths.  A path is the sequence of its components below "/".
\* ------------------------------------------------------------------------
Home == <<"h">>
PA == <<"h", "a">>
PB == <<"h", "b">>
StoreDir == <<"h", "s">>
SA == <<"h", "s", "a">>
SB == <<"h", "s", "b">>
CfgPath == <<"h", "config">>

\* every path the model keeps a node for (Home itself always is a directory)
Paths == {PA, PB, StoreDir, SA, SB}
\* paths an Operation may name
Leaves == {PA, PB, SA}

None == [kind |-> "none", data |-> <<>>]
DirNode == [kind |-> "dir", data |-> <<>>]
File(d) == [kind |-> "file", data |-> <<d>>]
Link(rel) == [kind |-> "link", data |-> rel]

\* filepath.Dir
Dir(p) == SubSeq(p, 1, Len(p) - 1)

RECURSIVE CommonLen(_, _)
CommonLen(a, b) ==
    IF a # <<>> /\ b # <<>> /\ Head(a) = Head(b)
    THEN 1 + CommonLen(Tail(a), Tail(b))
    ELSE 0

RECURSIVE Ups(_)
Ups(n) == IF n = 0 THEN <<>> ELSE <<"..">> \o Ups(n - 1)

\* filepath.Rel(base, targ) for two clean absolute paths
Rel(base, targ) ==
    LET c == CommonLen(base, targ)
        r == Ups(Len(base) - c) \o SubSeq(targ, c + 1, Len(targ))
    IN IF r = <<>> THEN <<".">> ELSE r

\* filepath.Join(dir, rel) followed by Clean
RECURSIVE JoinClean(_, _)
JoinClean(dir, rel) ==
    IF rel = <<>> THEN dir
    ELSE IF Head(rel) = "." THEN JoinClean(dir, Tail(rel))
    ELSE IF Head(rel) = ".."
         THEN JoinClean(IF dir = <<>> THEN <<>> ELSE Dir(dir), Tail(rel))
    ELSE JoinClean(Append(dir, Head(rel)), Tail(rel))

\* ComputeRelativeSymlink relative to the link itself, not its directory
ComputeRelativeSymlink_FromLink(link, target) == Rel(link, target)

\* config.ComputeRelativeSymlink on expanded paths
ComputeRelativeSymlink(link, target) == Rel(Dir(link), target)

\* ------------------------------------------------------------------------
\* Filesystem.  f maps every path it keeps (Paths, and under SpecBackup the
\* backup tree as well) to a node; ro is the set of
\* locations the process cannot modify (permission denied, read-only
\* mount); xdev says that the home directory and the store are on
\* different devices, so that rename(2) between them fails with EXDEV.
\* ------------------------------------------------------------------------
NodeAt(f, p) == IF p = Home THEN DirNode ELSE IF p \in DOMAIN f THEN f[p] ELSE None

\* a path can be looked up only below an existing directory
ParentIsDir(f, p) == NodeAt(f, Dir(p)).kind = "dir"

\* os.Lstat: the node at p itself
Lstat(f, p) == IF p = Home \/ ParentIsDir(f, p) THEN NodeAt(f, p) ELSE None

MaxLinkDepth == 3

\* the string of an absolute path starts with the separator; a relative
\* one does not (filepath.IsAbs)
AbsStr(p) == <<"/">> \o p
IsAbs(s) == s # <<>> /\ Head(s) = "/"

\* the path a link at p with stored target s names
LinkDest(p, s) == IF IsAbs(s) THEN Tail(s) ELSE JoinClean(Dir(p), s)

\* the path a name resolves to after following symlinks (<<>>: ELOOP)
RECURSIVE ResolvePath(_, _, _)
ResolvePath(f, p, n) ==
    IF Lstat(f, p).kind # "link" THEN p
    ELSE IF n = 0 THEN <<>>
    ELSE ResolvePath(f, LinkDest(p, Lstat(f, p).data), n - 1)

\* os.Stat: the node p resolves to
Stat(f, p) ==
    LET q == ResolvePath(f, p, MaxLinkDepth)
    IN IF q = <<>> THEN None ELSE Lstat(f, q)

HasChildren(f, p) == \E q \in DOMAIN f : Dir(q) = p /\ f[q].kind # "none"

OnStore(p) == Len(p) >= 2 /\ SubSeq(p, 1, 2) = StoreDir

\* fs.FileExists
FileExists(f, p) == Stat(f, p).kind \in {"file"}

\* os.MkdirAll: the missing ancestors first, then d itself; [ok, f]
RECURSIVE MkdirAll(_, _, _)
MkdirAll(f, ro, d) ==
    LET \* par: MkdirAll of the parent
        Made(par) ==
            IF ~par.ok THEN par
            ELSE IF d \in DOMAIN par.f /\ d \notin ro /\ Lstat(par.f, d).kind = "none"
                 THEN [ok |-> TRUE, f |-> [par.f EXCEPT ![d] = DirNode]]
            ELSE [ok |-> FALSE, f |-> par.f]
    IN IF Stat(f, d).kind = "dir" THEN [ok |-> TRUE, f |-> f]
       ELSE IF Stat(f, d).kind # "none" \/ Len(d) <= 1 THEN [ok |-> FALSE, f |-> f]
       ELSE Made(MkdirAll(f, ro, Dir(d)))

\* fs.EnsureDir: [ok, f]
EnsureDir(f, ro, d) ==
    IF Stat(f, d).kind = "dir" THEN [ok |-> TRUE, f |-> f]
    ELSE IF Stat(f, d).kind # "none" THEN [ok |-> FALSE, f |-> f]
    ELSE MkdirAll(f, ro, d)

\* os.Remove: [ok, f]
OsRemove(f, ro, p) ==
    LET st == Lstat(f, p)
    IN IF p \notin DOMAIN f \/ st.kind = "none" \/ p \in ro
          \/ (st.kind = "dir" /\ HasChildren(f, p))
       THEN [ok |-> FALSE, f |-> f]
       ELSE [ok |-> TRUE, f |-> [f EXCEPT ![p] = None]]

\* os.Rename: [ok, f]
OsRename(f, ro, xdev, src, dst) ==
    LET s == Lstat(f, src)
        d == Lstat(f, dst)
    IN IF \/ s.kind = "none"
          \/ ~ParentIsDir(f, dst)
          \/ src \in ro \/ dst \in ro
          \/ (xdev /\ OnStore(src) # OnStore(dst))
          \/ (d.kind = "dir" /\ s.kind # "dir")
          \/ (s.kind = "dir" /\ d.kind \notin {"none", "dir"})
          \/ (s.kind = "dir" /\ HasChildren(f, src))
          \/ (d.kind = "dir" /\ HasChildren(f, dst))
       THEN [ok |-> FALSE, f |-> f]
       ELSE [ok |-> TRUE, f |-> [f EXCEPT ![dst] = s, ![src] = None]]

\* os.Symlink: [ok, f]
OsSymlink(f, ro, rel, link) ==
    IF link \in ro \/ ~ParentIsDir(f, link) \/ Lstat(f, link).kind # "none"
    THEN [ok |-> FALSE, f |-> f]
    ELSE [ok |-> TRUE, f |-> [f EXCEPT ![link] = Link(rel)]]

\* os.OpenFile(dst, O_CREATE|O_WRONLY|O_TRUNC) then write: follows a
\* symlink at dst; [ok, f]
WriteThrough(f, ro, dst, data) ==
    LET q == ResolvePath(f, dst, MaxLinkDepth)
    IN IF q = <<>> \/ q \notin DOMAIN f \/ q \in ro \/ ~ParentIsDir(f, q)
          \/ Lstat(f, q).kind = "dir"
       THEN [ok |-> FALSE, f |-> f]
       ELSE [ok |-> TRUE, f |-> [f EXCEPT ![q] = [kind |-> "file", data |-> data]]]

\* fs.CopyWithPermissions: [ok, f]
CopyWithPermissions(f, ro, src, dst) ==
    LET \* s: os.Stat(src); g: the filesystem after EnsureDir
        Copy(s, g) ==
            WriteThrough(g, ro, dst,
                \* the destination is created and truncated before io.Copy
                \* reads: a directory cannot be read, and a file copied
                \* onto itself is already empty
                IF s.kind = "dir"
                   \/ ResolvePath(g, src, MaxLinkDepth) = ResolvePath(g, dst, MaxLinkDepth)
                THEN <<>> ELSE s.data)
        Created(s, w) == [ok |-> w.ok /\ s.kind # "dir", f |-> w.f]
        Ensured(s, e) ==
            IF ~e.ok THEN [ok |-> FALSE, f |-> e.f]
            ELSE Created(s, Copy(s, e.f))
        Opened(s) ==
            IF s.kind = "none" THEN [ok |-> FALSE, f |-> f]
            ELSE Ensured(s, EnsureDir(f, ro, Dir(dst)))
    IN Opened(Stat(f, src))

\* fs.MoveFile: [ok, f]
MoveFile(f, ro, xdev, src, dst) ==
    LET \* d: os.Remove(src) after the copy c
        Removed(c, d) ==
            IF ~d.ok THEN [ok |-> FALSE, f |-> OsRemove(c.f, ro, dst).f] ELSE d
        \* c: the fallback CopyWithPermissions(src, dst)
        Copied(c) == IF ~c.ok THEN c ELSE Removed(c, OsRemove(c.f, ro, src))
        \* r: os.Rename(src, dst) in the filesystem g
        Renamed(g, r) ==
            IF r.ok THEN r ELSE Copied(CopyWithPermissions(g, ro, src, dst))
        \* e: EnsureDir(filepath.Dir(dst))
        Ensured(e) ==
            IF ~e.ok THEN [ok |-> FALSE, f |-> e.f]
            ELSE Renamed(e.f, OsRename(e.f, ro, xdev, src, dst))
    IN Ensured(EnsureDir(f, ro, Dir(dst)))

\* CreateSymlink that stores the absolute target
CreateSymlink_Absolute(f, ro, target, link) ==
    LET Cleared(rm) ==
            IF ~rm.ok THEN rm
            ELSE OsSymlink(rm.f, ro, AbsStr(target), link)
        Ensured(e) ==
            IF ~e.ok THEN [ok |-> FALSE, f |-> e.f]
            ELSE Cleared(IF Lstat(e.f, link).kind # "none"
                         THEN OsRemove(e.f, ro, link)
                         ELSE [ok |-> TRUE, f |-> e.f])
    IN Ensured(EnsureDir(f, ro, Dir(link)))

\* fs.CreateSymlink on a platform with symlinks: [ok, f]
CreateSymlink(f, ro, target, link) ==
    LET \* rm: the removal of whatever was at link
        Cleared(rm) ==
            IF ~rm.ok THEN rm
            ELSE OsSymlink(rm.f, ro, ComputeRelativeSymlink(link, target), link)
        \* e: EnsureDir(filepath.Dir(link))
        Ensured(e) ==
            IF ~e.ok THEN [ok |-> FALSE, f |-> e.f]
            ELSE Cleared(IF Lstat(e.f, link).kind # "none"
                         THEN OsRemove(e.f, ro, link)
                         ELSE [ok |-> TRUE, f |-> e.f])
    IN Ensured(EnsureDir(f, ro, Dir(link)))

\* RemoveSymlink without the check that the path is a symlink
RemoveSymlink_NoCheck(f, ro, link) ==
    LET Removed(r) == [ok |-> r.ok, f |-> r.f, err |-> IF r.ok THEN "" ELSE "removing"]
    IN Removed(OsRemove(f, ro, link))

\* fs.RemoveSymlink: [ok, f, err]
RemoveSymlink(f, ro, link) ==
    LET Removed(r) == [ok |-> r.ok, f |-> r.f, err |-> IF r.ok THEN "" ELSE "removing"]
    IN \* IsSymlink: os.Lstat fails with something else than "not exist"
       IF NodeAt(f, Dir(link)).kind = "file"
       THEN [ok |-> FALSE, f |-> f, err |-> "checking"]
       ELSE IF Lstat(f, link).kind # "link"
       THEN [ok |-> FALSE, f |-> f, err |-> "NotASymlink"]
       ELSE Removed(OsRemove(f, ro, link))

\* ------------------------------------------------------------------------
\* Registry (config.Config.ManagedFiles in memory, config.yaml on disk).
\* A world w is [f, mem, disk]; env is [ro, xdev].
\* ------------------------------------------------------------------------
\* a ManagedFile: SourcePath, RepoPath and HasUncommitted (false when the
\* entry is made)
Entry(src, repo) == [src |-> src, repo |-> repo, unc |-> FALSE]

\* Config.SaveConfig: [ok, disk]
SaveConfig(mem, disk, ro) ==
    IF CfgPath \in ro THEN [ok |-> FALSE, disk |-> disk]
    ELSE [ok |-> TRUE, disk |-> mem]

RECURSIVE IndexOfSrc(_, _, _)
IndexOfSrc(mem, src, i) ==
    IF i > Len(mem) THEN 0
    ELSE IF mem[i].src = src THEN i
    ELSE IndexOfSrc(mem, src, i + 1)

RemoveAt(q, i) == SubSeq(q, 1, i - 1) \o SubSeq(q, i + 1, Len(q))

\* Config.RemoveManagedFile: [ok, mem, disk]
RemoveManagedFile(mem, disk, ro, src) ==
    LET Saved(m, sv) == [ok |-> sv.ok, mem |-> m, disk |-> sv.disk]
        Removed(m) == Saved(m, SaveConfig(m, disk, ro))
        Found(i) ==
            IF i = 0 THEN [ok |-> FALSE, mem |-> mem, disk |-> disk]
            ELSE Removed(RemoveAt(mem, i))
    IN Found(IndexOfSrc(mem, src, 1))

\* ------------------------------------------------------------------------
\* Operations.  An op is [type, a, b]:
\*   move    a = Src, b = Dst          copy    a = Src, b = Dst
\*   symlink a = Target, b = Link      addcfg  a = SourcePath, b = RepoPath
\* Do and Undo return [ok, w].
\* ------------------------------------------------------------------------
Op(t, a, b) == [type |-> t, a |-> a, b |-> b]

WithFs(w, r) == [ok |-> r.ok, w |-> [w EXCEPT !.f = r.f]]

\* MoveFileOp.Do
MoveFileOpDo(w, env, op) == WithFs(w, MoveFile(w.f, env.ro, env.xdev, op.a, op.b))
\* MoveFileOp.Undo
MoveFileOpUndo(w, env, op) == WithFs(w, MoveFile(w.f, env.ro, env.xdev, op.b, op.a))
\* CopyFileOp.Do
CopyFileOpDo(w, env, op) == WithFs(w, CopyWithPermissions(w.f, env.ro, op.a, op.b))
\* CopyFileOp.Undo
CopyFileOpUndo(w, env, op) == WithFs(w, OsRemove(w.f, env.ro, op.b))
\* CreateSymlinkOp.Do
CreateSymlinkOpDo(w, env, op) == WithFs(w, CreateSymlink(w.f, env.ro, op.a, op.b))
\* CreateSymlinkOp.Undo
CreateSymlinkOpUndo(w, env, op) == WithFs(w, OsRemove(w.f, env.ro, op.b))

\* AddToConfigOp.Do: the entry is appended in memory before the save
AddToConfigOpDo(w, env, op) ==
    LET Saved(m, sv) == [ok |-> sv.ok, w |-> [w EXCEPT !.mem = m, !.disk = sv.disk]]
        Appended(m) == Saved(m, SaveConfig(m, w.disk, env.ro))
    IN Appended(Append(w.mem, Entry(op.a, op.b)))

\* AddToConfigOp.Undo
AddToConfigOpUndo(w, env, op) ==
    LET Removed(r) == [ok |-> r.ok, w |-> [w EXCEPT !.mem = r.mem, !.disk = r.disk]]
    IN Removed(RemoveManagedFile(w.mem, w.disk, env.ro, op.a))

\* Operation.Do
Do(w, env, op) ==
    CASE op.type = "move" -> MoveFileOpDo(w, env, op)
      [] op.type = "copy" -> CopyFileOpDo(w, env, op)
      [] op.type = "symlink" -> CreateSymlinkOpDo(w, env, op)
      [] op.type = "addcfg" -> AddToConfigOpDo(w, env, op)

\* Operation.Undo
Undo(w, env, op) ==
    CASE op.type = "move" -> MoveFileOpUndo(w, env, op)
      [] op.type = "copy" -> CopyFileOpUndo(w, env, op)
      [] op.type = "symlink" -> CreateSymlinkOpUndo(w, env, op)
      [] op.type = "addcfg" -> AddToConfigOpUndo(w, env, op)

\* ------------------------------------------------------------------------
\* Transaction.  t is [executed, committed]; every method returns the new
\* t and w together with what it invoked and what it returned:
\*   did    the ops whose Do was invoked, in order, as [op, ok]
\*   undone the ops whose Undo was invoked, in order, as [op, ok]
\*   err    "" for nil, else the kind of the returned error
\*   names  the ops the returned error names
\* ------------------------------------------------------------------------
Call(op, ok) == [op |-> op, ok |-> ok]

\* mutant of UndoFrom: the loop runs from index 1 upwards
RECURSIVE UndoUpFrom(_, _, _, _)
UndoUpFrom(stack, k, w, env) ==
    IF k > Len(stack) THEN [w |-> w, undone |-> <<>>]
    ELSE LET Next(u, rest) ==
                 [w |-> rest.w, undone |-> <<Call(stack[k], u.ok)>> \o rest.undone]
             Undone(u) == Next(u, UndoUpFrom(stack, k + 1, u.w, env))
         IN Undone(Undo(w, env, stack[k]))

UndoFrom_Forward(stack, i, w, env) ==
    IF i = 0 THEN [w |-> w, undone |-> <<>>] ELSE UndoUpFrom(stack, 1, w, env)

\* the loop of Transaction.Rollback, from index i down to 1: [w, undone]
RECURSIVE UndoFrom(_, _, _, _)
UndoFrom(stack, i, w, env) ==
    IF i = 0 THEN [w |-> w, undone |-> <<>>]
    ELSE LET Next(u, rest) ==
                 [w |-> rest.w, undone |-> <<Call(stack[i], u.ok)>> \o rest.undone]
             Undone(u) == Next(u, UndoFrom(stack, i - 1, u.w, env))
         IN Undone(Undo(w, env, stack[i]))

FailedOps(calls) == SelectSeq(calls, LAMBDA c : ~c.ok)
OpsOf(calls) == [i \in 1..Len(calls) |-> calls[i].op]

\* mutant of Rollback: a later Undo error overwrites the earlier ones
Rollback_LastErrorOnly(t, w, env) ==
    IF t.committed
    THEN [t |-> t, w |-> w, did |-> <<>>, undone |-> <<>>,
          err |-> "committed", names |-> <<>>]
    ELSE LET Joined(r, failed) ==
                 [t |-> [t EXCEPT !.executed = <<>>], w |-> r.w,
                  did |-> <<>>, undone |-> r.undone,
                  err |-> IF failed # <<>> THEN "rollback" ELSE "",
                  names |-> IF failed = <<>> THEN <<>> ELSE <<failed[Len(failed)]>>]
             Looped(r) == Joined(r, OpsOf(FailedOps(r.undone)))
         IN Looped(UndoFrom(t.executed, Len(t.executed), w, env))

\* Transaction.Rollback
Rollback(t, w, env) ==
    IF t.committed
    THEN [t |-> t, w |-> w, did |-> <<>>, undone |-> <<>>,
          err |-> "committed", names |-> <<>>]
    ELSE LET \* failed: the operations whose Undo returned an error
             Joined(r, failed) ==
                 [t |-> [t EXCEPT !.executed = <<>>], w |-> r.w,
                  did |-> <<>>, undone |-> r.undone,
                  err |-> IF failed # <<>> THEN "rollback" ELSE "",
                  names |-> failed]
             Looped(r) == Joined(r, OpsOf(FailedOps(r.undone)))
         IN Looped(UndoFrom(t.executed, Len(t.executed), w, env))

\* mutant of Execute: the committed flag is not checked
Execute_NoCommittedCheck(t, w, env, op) ==
    LET RolledBack(rb) ==
            [t |-> [rb.t EXCEPT !.committed = t.committed], w |-> rb.w,
             did |-> <<Call(op, FALSE)>>,
             undone |-> rb.undone, err |-> "executing", names |-> <<op>>]
        Done(d) ==
            IF ~d.ok
            THEN RolledBack(Rollback([t EXCEPT !.committed = FALSE], d.w, env))
            ELSE [t |-> [t EXCEPT !.executed = Append(t.executed, op)], w |-> d.w,
                  did |-> <<Call(op, TRUE)>>, undone |-> <<>>,
                  err |-> "", names |-> <<>>]
    IN Done(Do(w, env, op))

\* Transaction.Execute: the result of the automatic Rollback is dropped
Execute(t, w, env, op) ==
    IF t.committed
    THEN [t |-> t, w |-> w, did |-> <<>>, undone |-> <<>>,
          err |-> "committed", names |-> <<>>]
    ELSE LET \* rb: what t.Rollback() did; the error it returned is dropped
             RolledBack(rb) ==
                 [t |-> rb.t, w |-> rb.w, did |-> <<Call(op, FALSE)>>,
                  undone |-> rb.undone, err |-> "executing", names |-> <<op>>]
             Done(d) ==
                 IF ~d.ok THEN RolledBack(Rollback(t, d.w, env))
                 ELSE [t |-> [t EXCEPT !.executed = Append(t.executed, op)],
                       w |-> d.w, did |-> <<Call(op, TRUE)>>, undone |-> <<>>,
                       err |-> "", names |-> <<>>]
         IN Done(Do(w, env, op))

\* Transaction.Commit
Commit(t) == [t EXCEPT !.committed = TRUE, !.executed = <<>>]

RECURSIVE ExecuteAll(_, _, _, _)

\* mutant of ExecuteAll: the loop goes on after an Execute that failed
ExecuteAll_KeepGoing(t, w, env, ops) ==
    IF ops = <<>>
    THEN [t |-> t, w |-> w, did |-> <<>>, undone |-> <<>>, err |-> "", names |-> <<>>]
    ELSE LET Rest(e, rest) ==
                 [rest EXCEPT !.did = e.did \o rest.did,
                              !.err = IF e.err # "" THEN e.err ELSE rest.err]
             Executed(e) == Rest(e, ExecuteAll(e.t, e.w, env, Tail(ops)))
         IN Executed(Execute(t, w, env, Head(ops)))

\* Transaction.ExecuteAll over the planned operations ops
ExecuteAll(t, w, env, ops) ==
    IF ops = <<>>
    THEN [t |-> t, w |-> w, did |-> <<>>, undone |-> <<>>, err |-> "", names |-> <<>>]
    ELSE LET Rest(e, rest) == [rest EXCEPT !.did = e.did \o rest.did]
             Executed(e) ==
                 IF e.err # "" THEN e
                 ELSE Rest(e, ExecuteAll(e.t, e.w, env, Tail(ops)))
         IN Executed(Execute(t, w, env, Head(ops)))

\* core.AddFileTransaction: the planned operations
AddFileTransaction(src, repo) ==
    << Op("move", src, repo), Op("symlink", repo, src), Op("addcfg", src, repo) >>

\* ------------------------------------------------------------------------
\* State
\* ------------------------------------------------------------------------
VARIABLES
    fs,          \* the filesystem: [Paths -> node]
    cfgMem,      \* Config.ManagedFiles of the loaded Config
    cfgDisk,     \* the managed files saved in config.yaml
    ro,          \* locations that cannot be modified at the moment
    xdev,        \* home and store are on different devices
    operations,  \* Transaction.operations (planned, for ExecuteAll)
    executed,    \* Transaction.executed
    committed,   \* Transaction.committed
    rolledBack,  \* history: Rollback has run on this Transaction
    snap,        \* history: the world when the Transaction was created
    prev,        \* history: the world before the last method call
    ret,         \* history: the last method call, what it invoked and returned
    ncalls,      \* number of method calls so far
    lockFile,    \* the lock file ~/.dotcor/.lock: [st, pid, ts, host]
    pc,          \* where each process is in AcquireLock / ReleaseLock
    loc,         \* the locals of each process's current (or last) call
    res,         \* what each process's last call returned
    alive,       \* which processes exist
    clock,       \* wall clock, in seconds since the epoch (UTC)
    wl,          \* where each process is in WithLock, and what fn did
    goos,        \* runtime.GOOS of the build
    tz,          \* offset of the local time zone from UTC, in seconds
    made         \* history: the backups CreateBackup has returned

txVars == <<fs, cfgMem, cfgDisk, ro, xdev, operations, executed, committed,
            rolledBack, snap, prev, ret, ncalls>>

lockVars == <<lockFile, pc, loc, res, alive, clock, wl>>

storeVars == <<tz, made>>

vars == <<txVars, lockVars, goos, storeVars>>

\* ------------------------------------------------------------------------
\* Bounds of the Transaction model
\* ------------------------------------------------------------------------
MaxCalls == 3

\* the operations a caller passes to Execute
OpsU ==
    { Op("move", PA, SA), Op("move", PA, PB),
      Op("copy", PA, PB), Op("copy", SA, PA), Op("copy", PA, SA),
      Op("symlink", SA, PA), Op("symlink", SA, PB),
      Op("addcfg", PA, SA) }

ROChoices == { {}, {PA}, {SA}, {CfgPath} }

InitFs ==
    { [p \in Paths |->
         CASE p = PA -> File("x")
           [] p = PB -> b
           [] p = StoreDir -> IF st = "none" THEN None ELSE DirNode
           [] p = SA -> IF st = "full" THEN File("y") ELSE None
           [] OTHER -> None] :
      b \in {None, File("y"), DirNode}, st \in {"none", "full"} }

\* ------------------------------------------------------------------------
\* The lock file.  st is "absent", "empty" (created or truncated, nothing
\* written yet: ReadLockInfo finds it malformed) or "rec" (three lines:
\* pid, timestamp, host name).
\* ------------------------------------------------------------------------
Procs == {1, 2}
HostName == "host"
\* runtime.GOOS: isProcessAlive has a Unix and a Windows branch
GOOS == {"linux", "windows"}
\* const LockTimeout = 30 * time.Second: declared, used nowhere
LockTimeout == 30
\* time.Hour in IsStale
StaleAge == 3600
TickStep == 1801
MaxClock == 3700

Absent == [st |-> "absent", pid |-> 0, ts |-> 0, host |-> ""]
EmptyFile == [st |-> "empty", pid |-> 0, ts |-> 0, host |-> ""]
Rec(p, t) == [st |-> "rec", pid |-> p, ts |-> t, host |-> HostName]

NoInfo == [ok |-> FALSE, pid |-> 0, ts |-> 0, host |-> ""]

\* core.ReadLockInfo: on any error the zero LockInfo
ReadLockInfo(file) ==
    IF file.st = "rec"
    THEN [ok |-> TRUE, pid |-> file.pid, ts |-> file.ts, host |-> file.host]
    ELSE NoInfo

\* core.IsStale up to the liveness probe: malformed, or older than an hour
RecordStale(info, now) == ~info.ok \/ now - info.ts > StaleAge

\* core.isProcessAliveUnix: signal 0 reaches exactly a process that exists
isProcessAliveUnix(pid) == pid \in Procs /\ alive[pid]

\* core.isProcessAliveWindows sends the same signal 0: os.Process.Signal
\* on Windows implements os.Kill only and returns an error for every
\* other signal, which is reported as "not alive"
isProcessAliveWindows(pid) == FALSE

\* core.isProcessAlive
isProcessAlive(pid) ==
    IF goos = "windows" THEN isProcessAliveWindows(pid) ELSE isProcessAliveUnix(pid)

NoLoc == [saw |-> FALSE, rd |-> NoInfo, age |-> 0, aliveSeen |-> FALSE,
          stale |-> FALSE, fd |-> FALSE, removed |-> FALSE, was |-> Absent,
          back |-> "idle", dead |-> FALSE]
NoRes == [fn |-> "", err |-> "", pid |-> 0, host |-> ""]

\* a process outside WithLock.  st is "none", "acquire" (in AcquireLock),
\* "fn" (fn runs), "defer" (the deferred ReleaseLock runs) or "returned";
\* acq is what AcquireLock returned, invoked says that fn ran, fn is how
\* fn ended ("nil", "error", "panic"), out is how WithLock ended and
\* mine says that the lock file still held this process's record then
NoWl == [st |-> "none", acq |-> "", invoked |-> FALSE, fn |-> "", out |-> "",
         mine |-> FALSE]

\* no backups taken, local time is UTC
StoreIdle ==
    /\ tz = 0
    /\ made = <<>>

LockIdle ==
    /\ lockFile = Absent
    /\ pc = [p \in Procs |-> "idle"]
    /\ loc = [p \in Procs |-> NoLoc]
    /\ res = [p \in Procs |-> NoRes]
    /\ alive = [p \in Procs |-> TRUE]
    /\ clock = 0
    /\ wl = [p \in Procs |-> NoWl]

World == [f |-> fs, mem |-> cfgMem, disk |-> cfgDisk]
Env == [ro |-> ro, xdev |-> xdev]
Tx == [executed |-> executed, committed |-> committed]
TxState == IF committed THEN "committed" ELSE IF rolledBack THEN "rolledback" ELSE "open"

\* NewTransaction / AddFileTransaction
TxInit ==
    /\ fs \in InitFs
    /\ cfgMem = <<>>
    /\ cfgDisk = <<>>
    /\ ro = {}
    /\ xdev \in BOOLEAN
    /\ operations \in {<<>>, AddFileTransaction(PA, SA)}
    /\ executed = <<>>
    /\ committed = FALSE
    /\ rolledBack = FALSE
    /\ snap = [f |-> fs, mem |-> cfgMem, disk |-> cfgDisk]
    /\ prev = snap
    /\ ret = [fn |-> "NewTransaction", arg |-> <<>>, did |-> <<>>, undone |-> <<>>,
              err |-> "", names |-> <<>>, pre |-> <<>>, was |-> "open"]
    /\ ncalls = 0
    /\ LockIdle
    /\ goos = "linux"
    /\ StoreIdle

\* the state after a method call that returned r
Returned(fn, arg, r) ==
    /\ fs' = r.w.f
    /\ cfgMem' = r.w.mem
    /\ cfgDisk' = r.w.disk
    /\ executed' = r.t.executed
    /\ committed' = r.t.committed
    /\ prev' = World
    /\ ret' = [fn |-> fn, arg |-> arg, did |-> r.did, undone |-> r.undone,
               err |-> r.err, names |-> r.names, pre |-> executed, was |-> TxState]
    /\ ncalls' = ncalls + 1
    /\ UNCHANGED <<ro, xdev, operations, snap, lockVars, goos, storeVars>>

\* tx.Execute(op)
TxExecute ==
    /\ ncalls < MaxCalls
    /\ \E op \in OpsU :
          \E r \in {Execute(Tx, World, Env, op)} :
             /\ Returned("Execute", <<op>>, r)
             /\ rolledBack' = (rolledBack \/ (~committed /\ r.err # ""))

\* tx.ExecuteAll()
TxExecuteAll ==
    /\ ncalls < MaxCalls
    /\ \E r \in {ExecuteAll(Tx, World, Env, operations)} :
          /\ Returned("ExecuteAll", operations, r)
          /\ rolledBack' = (rolledBack \/ (~committed /\ r.err # ""))

\* tx.Rollback()
TxRollback ==
    /\ ncalls < MaxCalls
    /\ \E r \in {Rollback(Tx, World, Env)} :
          /\ Returned("Rollback", <<>>, r)
          /\ rolledBack' = (rolledBack \/ ~committed)

\* tx.Commit()
TxCommit ==
    /\ ncalls < MaxCalls
    /\ LET r == [t |-> Commit(Tx), w |-> World, did |-> <<>>, undone |-> <<>>,
                 err |-> "", names |-> <<>>]
       IN Returned("Commit", <<>>, r)
    /\ UNCHANGED rolledBack

\* the environment: a location becomes unwritable or writable again
EnvChange ==
    /\ ncalls < MaxCalls
    /\ \E r \in ROChoices : r # ro /\ ro' = r
    /\ UNCHANGED <<fs, cfgMem, cfgDisk, xdev, operations, executed, committed,
                   rolledBack, snap, prev, ret, ncalls, lockVars, goos, storeVars>>

TxNext == TxExecute \/ TxExecuteAll \/ TxRollback \/ TxCommit \/ EnvChange

SpecTx == TxInit /\ [][TxNext]_vars

\* ------------------------------------------------------------------------
\* Properties of the Transaction (checked under SpecTx)
\* ------------------------------------------------------------------------
Reverse(q) == [i \in 1..Len(q) |-> q[Len(q) + 1 - i]]
Range(q) == {q[i] : i \in 1..Len(q)}
ExecFailed == ret.fn \in {"Execute", "ExecuteAll"} /\ ret.err = "executing"

\* C1: whenever Execute or ExecuteAll returns because the forward action of
\* the k-th operation failed, the filesystem equals the snapshot taken when
\* the Transaction was created.
C1_RollbackCompleteness ==
    ExecFailed => fs = snap.f

\* C3: once committed, Execute returns an error without invoking Do,
\* Rollback returns an error without invoking any Undo, neither changes
\* the world, the flag stays set and the executed stack is empty.
C3_CommittedTerminal ==
    /\ committed => executed = <<>>
    /\ ret.was = "committed" =>
          /\ committed
          /\ ret.did = <<>> /\ ret.undone = <<>>
          /\ World = prev
          /\ (ret.fn = "Execute" => ret.err # "")
          /\ (ret.fn = "ExecuteAll" /\ ret.arg # <<>> => ret.err # "")
          /\ (ret.fn = "Rollback" => ret.err # "")

\* C3 witness: a Transaction that changed the filesystem was committed and
\* a later Execute was refused.
C3_Witness ==
    /\ ret.was = "committed" /\ ret.fn = "Execute" /\ ret.err = "committed"
    /\ fs # snap.f

\* C4: after a rollback every Execute fails without invoking the forward
\* action, and the Transaction is never committed.
C4_RolledBackTerminal ==
    /\ rolledBack => ~committed
    /\ (ret.was = "rolledback" /\ ret.fn = "Execute") =>
          (ret.err # "" /\ ret.did = <<>>)

\* C5: a rollback (explicit, or the automatic one of a failed Execute)
\* invokes Undo on exactly the operations of the executed stack, once each,
\* in reverse order of execution; the stack holds the operations whose Do
\* succeeded; with an empty stack Rollback invokes nothing and changes
\* nothing.
C5_RollbackReverseOrder ==
    /\ (ret.fn = "Rollback" /\ ret.was # "committed") =>
          /\ OpsOf(ret.undone) = Reverse(ret.pre)
          /\ (ret.pre = <<>> => World = prev /\ ret.err = "")
    /\ (ret.fn = "Execute" /\ ret.was # "committed") =>
          /\ Len(ret.did) = 1 /\ ret.did[1].op = ret.arg[1]
          /\ (ret.did[1].ok => executed = Append(ret.pre, ret.arg[1]) /\ ret.undone = <<>>)
          /\ (~ret.did[1].ok => OpsOf(ret.undone) = Reverse(ret.pre))

\* C5 witness: an explicit Rollback undid two different operations.
C5_Witness ==
    /\ ret.fn = "Rollback" /\ Len(ret.pre) = 2 /\ ret.pre[1] # ret.pre[2]
    /\ Len(ret.undone) = 2

C7_FailureReported ==
    ExecFailed =>
        \/ fs = snap.f
        \/ Range(OpsOf(FailedOps(ret.undone))) \subseteq Range(ret.names)

\* C8: when the registry step of the add transaction fails, the symlink is
\* gone, the file is back at its original path, the registry is as it was
\* in memory and on disk, and the error names the registry step.
C8_AddRollback ==
    ( /\ ret.fn = "ExecuteAll" /\ ret.arg = AddFileTransaction(PA, SA)
      /\ ret.err = "executing" /\ ret.did[Len(ret.did)].op.type = "addcfg" ) =>
        /\ fs[PA] = prev.f[PA]
        /\ fs[SA] = prev.f[SA]
        /\ cfgMem = prev.mem
        /\ cfgDisk = prev.disk
        /\ ret.names = <<Op("addcfg", PA, SA)>>

\* C25: ExecuteAll invokes the forward actions in append order: what it
\* invoked is a prefix of the planned operations, only the last invoked one
\* can have failed, nothing planned after a failure is invoked, and without
\* a failure everything planned was invoked; for AddFileTransaction the
\* order is move, create symlink, add registry entry.
C25_ExecuteAllOrder ==
    (ret.fn = "ExecuteAll" /\ ret.was = "open") =>
        /\ Len(ret.did) <= Len(ret.arg)
        /\ \A i \in 1..Len(ret.did) :
              /\ ret.did[i].op = ret.arg[i]
              /\ (~ret.did[i].ok => i = Len(ret.did))
              /\ (ret.arg = AddFileTransaction(PA, SA) =>
                    ret.did[i].op.type = <<"move", "symlink", "addcfg">>[i])
        /\ (ret.err = "") = (Len(ret.did) = Len(ret.arg)
                               /\ \A i \in 1..Len(ret.did) : ret.did[i].ok)

\* C25 witness: the move of the add transaction failed and neither the
\* symlink nor the registry step was invoked.
C25_Witness ==
    /\ ret.fn = "ExecuteAll" /\ ret.was = "open" /\ Len(ret.arg) = 3
    /\ Len(ret.did) = 1 /\ ~ret.did[1].ok /\ ret.err = "executing"

\* C25 witness of the full order: all three steps ran, in order.
C25_WitnessAll ==
    /\ ret.fn = "ExecuteAll" /\ Len(ret.did) = 3 /\ ret.err = ""

\* ------------------------------------------------------------------------
\* The lock (SpecLock): every action is one step of one process, a step
\* being the code up to and including its next system call.
\* ------------------------------------------------------------------------
TxIdle ==
    /\ fs = [p \in Paths |-> IF p = PA THEN File("x") ELSE None]
    /\ cfgMem = <<>>
    /\ cfgDisk = <<>>
    /\ ro = {}
    /\ xdev = FALSE
    /\ operations = <<>>
    /\ executed = <<>>
    /\ committed = FALSE
    /\ rolledBack = FALSE
    /\ snap = [f |-> fs, mem |-> cfgMem, disk |-> cfgDisk]
    /\ prev = snap
    /\ ret = [fn |-> "NewTransaction", arg |-> <<>>, did |-> <<>>, undone |-> <<>>,
              err |-> "", names |-> <<>>, pre |-> <<>>, was |-> "open"]
    /\ ncalls = 0

LockInit == TxIdle /\ LockIdle /\ StoreIdle /\ goos \in GOOS

\* the process has not called WithLock (a command calls it once)
Free(p) == wl[p].st = "none"

Running(p, label) == alive[p] /\ pc[p] = label

Goto(p, label) == pc' = [pc EXCEPT ![p] = label]
Return(p, label, fn, err, info) ==
    /\ pc' = [pc EXCEPT ![p] = label]
    /\ res' = [res EXCEPT ![p] = [fn |-> fn, err |-> err, pid |-> info.pid, host |-> info.host]]

\* unlinking the lock file: a process that has it open keeps writing to
\* the unlinked file
Unlinked == [q \in Procs |-> [loc[q] EXCEPT !.fd = FALSE]]

\* AcquireLock, entry: getLockPath and EnsureDir of the config directory
AcqStart(p) ==
    /\ Running(p, "idle") /\ Free(p)
    /\ Goto(p, "a_exists")
    /\ loc' = [loc EXCEPT ![p] = NoLoc]
    /\ UNCHANGED <<lockFile, res, alive, clock, wl, txVars, goos, storeVars>>

\* AcquireLock: fs.FileExists(lockPath)
AcqExists(p) ==
    /\ Running(p, "a_exists")
    /\ loc' = [loc EXCEPT ![p].saw = (lockFile.st # "absent")]
    /\ Goto(p, IF lockFile.st # "absent" THEN "a_read" ELSE "a_create")
    /\ UNCHANGED <<lockFile, res, alive, clock, wl, txVars, goos, storeVars>>

\* IsStale: ReadLockInfo and the age check
AcqRead(p) ==
    /\ Running(p, "a_read")
    /\ LET info == ReadLockInfo(lockFile)
       IN /\ loc' = [loc EXCEPT ![p].rd = info,
                                ![p].age = IF info.ok THEN clock - info.ts ELSE 0,
                                ![p].stale = RecordStale(info, clock)]
          /\ Goto(p, IF RecordStale(info, clock) THEN "a_read2" ELSE "a_probe")
    /\ UNCHANGED <<lockFile, res, alive, clock, wl, txVars, goos, storeVars>>

\* IsStale: the liveness probe of the recorded pid
AcqProbe(p) ==
    /\ Running(p, "a_probe")
    /\ loc' = [loc EXCEPT ![p].aliveSeen = isProcessAlive(loc[p].rd.pid),
                          ![p].stale = ~isProcessAlive(loc[p].rd.pid)]
    /\ Goto(p, "a_read2")
    /\ UNCHANGED <<lockFile, res, alive, clock, wl, txVars, goos, storeVars>>

\* mutant of AcqRead2: a stale lock file is removed and the lock taken
AcqRead2_AutoClear(p) ==
    /\ Running(p, "a_read2")
    /\ IF loc[p].stale
       THEN /\ lockFile' = Absent
            /\ loc' = Unlinked
            /\ Goto(p, "a_create")
            /\ UNCHANGED res
       ELSE /\ Return(p, "idle", "AcquireLock", "LockHeld", ReadLockInfo(lockFile))
            /\ UNCHANGED <<lockFile, loc>>
    /\ UNCHANGED <<alive, clock, wl, txVars, goos, storeVars>>

\* AcquireLock: the second ReadLockInfo, for the message, and the return
AcqRead2(p) ==
    /\ Running(p, "a_read2")
    /\ Return(p, "idle", "AcquireLock",
              IF loc[p].stale THEN "StaleLock" ELSE "LockHeld",
              IF loc[p].stale THEN [ReadLockInfo(lockFile) EXCEPT !.host = ""]
              ELSE ReadLockInfo(lockFile))
    /\ UNCHANGED <<lockFile, loc, alive, clock, wl, txVars, goos, storeVars>>

\* writeLockFile: os.WriteFile opens with O_WRONLY|O_CREATE|O_TRUNC
AcqCreate(p) ==
    /\ Running(p, "a_create")
    /\ lockFile' = EmptyFile
    /\ loc' = [loc EXCEPT ![p].fd = TRUE]
    /\ Goto(p, "a_write")
    /\ UNCHANGED <<res, alive, clock, wl, txVars, goos, storeVars>>

\* writeLockFile: os.WriteFile writes the three lines and returns nil
AcqWrite(p) ==
    /\ Running(p, "a_write")
    /\ lockFile' = IF loc[p].fd THEN Rec(p, clock) ELSE lockFile
    /\ Return(p, "held", "AcquireLock", "", NoInfo)
    /\ UNCHANGED <<loc, alive, clock, wl, txVars, goos, storeVars>>

\* ReleaseLock, entry: getLockPath
RelStart(p) ==
    /\ alive[p] /\ pc[p] \in {"idle", "held"} /\ Free(p)
    /\ Goto(p, "r_exists")
    /\ loc' = [loc EXCEPT ![p] = NoLoc]
    /\ UNCHANGED <<lockFile, res, alive, clock, wl, txVars, goos, storeVars>>

\* ReleaseLock: fs.FileExists(lockPath); nothing to release without a file
RelExists(p) ==
    /\ Running(p, "r_exists")
    /\ loc' = [loc EXCEPT ![p].saw = (lockFile.st # "absent")]
    /\ IF lockFile.st # "absent"
       THEN Goto(p, "r_read") /\ UNCHANGED res
       ELSE Return(p, "idle", "ReleaseLock", "", NoInfo)
    /\ UNCHANGED <<lockFile, alive, clock, wl, txVars, goos, storeVars>>

\* mutant of RelRead: the owner check is missing
RelRead_NoOwnerCheck(p) ==
    /\ Running(p, "r_read")
    /\ loc' = [loc EXCEPT ![p].rd = ReadLockInfo(lockFile)]
    /\ Goto(p, "r_remove")
    /\ UNCHANGED <<lockFile, res, alive, clock, wl, txVars, goos, storeVars>>

\* ReleaseLock: ReadLockInfo and the owner check
RelRead(p) ==
    /\ Running(p, "r_read")
    /\ LET info == ReadLockInfo(lockFile)
       IN /\ loc' = [loc EXCEPT ![p].rd = info]
          /\ IF info.ok /\ info.pid # p
             THEN Return(p, "idle", "ReleaseLock", "NotOwner", info)
             ELSE Goto(p, "r_remove") /\ UNCHANGED res
    /\ UNCHANGED <<lockFile, alive, clock, wl, txVars, goos, storeVars>>

\* ReleaseLock: os.Remove(lockPath)
RelRemove(p) ==
    /\ Running(p, "r_remove")
    /\ IF lockFile.st = "absent"
       THEN /\ Return(p, "idle", "ReleaseLock", "remove", NoInfo)
            /\ UNCHANGED <<lockFile, loc>>
       ELSE /\ lockFile' = Absent
            /\ loc' = [Unlinked EXCEPT ![p].removed = TRUE, ![p].was = lockFile]
            /\ Return(p, "idle", "ReleaseLock", "", NoInfo)
    /\ UNCHANGED <<alive, clock, wl, txVars, goos, storeVars>>

\* IsStale called on its own (dotcor status, dotcor doctor), entry: by a
\* process outside WithLock, or by fn while it runs under the lock
IsStaleStart(p) ==
    /\ alive[p]
    /\ \/ pc[p] = "idle" /\ wl[p].st \in {"none", "returned"}
       \/ pc[p] = "held" /\ wl[p].st \in {"none", "fn"}
    /\ lockFile.st # "absent"
    /\ loc' = [loc EXCEPT ![p] = [NoLoc EXCEPT !.back = pc[p]]]
    /\ Goto(p, "s_read")
    /\ UNCHANGED <<lockFile, res, alive, clock, wl, txVars, goos, storeVars>>

\* IsStale: ReadLockInfo and the age check
IsStaleRead(p) ==
    /\ Running(p, "s_read")
    /\ \E info \in {ReadLockInfo(lockFile)} :
          /\ loc' = [loc EXCEPT ![p].rd = info,
                                ![p].age = IF info.ok THEN clock - info.ts ELSE 0,
                                ![p].dead = info.ok /\ ~alive[info.pid],
                                ![p].stale = RecordStale(info, clock)]
          /\ IF RecordStale(info, clock)
             THEN Return(p, loc[p].back, "IsStale", "", info)
             ELSE Goto(p, "s_probe") /\ UNCHANGED res
    /\ UNCHANGED <<lockFile, alive, clock, wl, txVars, goos, storeVars>>

\* IsStale: the liveness probe of the recorded pid, and the return
IsStaleProbe(p) ==
    /\ Running(p, "s_probe")
    /\ loc' = [loc EXCEPT ![p].aliveSeen = isProcessAlive(loc[p].rd.pid),
                          ![p].stale = ~isProcessAlive(loc[p].rd.pid)]
    /\ Return(p, loc[p].back, "IsStale", "", loc[p].rd)
    /\ UNCHANGED <<lockFile, alive, clock, wl, txVars, goos, storeVars>>

\* WithLock, entry: AcquireLock is called
WithLockStart(p) ==
    /\ Running(p, "idle") /\ Free(p)
    /\ wl' = [wl EXCEPT ![p] = [NoWl EXCEPT !.st = "acquire"]]
    /\ Goto(p, "a_exists")
    /\ loc' = [loc EXCEPT ![p] = NoLoc]
    /\ UNCHANGED <<lockFile, res, alive, clock, txVars, goos, storeVars>>

\* WithLock: AcquireLock returned an error, which is returned
WithLockFail(p) ==
    /\ Running(p, "idle") /\ wl[p].st = "acquire" /\ res[p].err # ""
    /\ wl' = [wl EXCEPT ![p].st = "returned", ![p].acq = res[p].err,
                        ![p].out = res[p].err,
                        ![p].mine = (lockFile.st = "rec" /\ lockFile.pid = p)]
    /\ UNCHANGED <<lockFile, pc, loc, res, alive, clock, txVars, goos, storeVars>>

\* WithLock: AcquireLock returned nil; the release is deferred and fn is
\* invoked
WithLockInvoke(p) ==
    /\ Running(p, "held") /\ wl[p].st = "acquire" /\ res[p].err = ""
    /\ wl' = [wl EXCEPT ![p].st = "fn", ![p].acq = res[p].err, ![p].invoked = TRUE]
    /\ UNCHANGED <<lockFile, pc, loc, res, alive, clock, txVars, goos, storeVars>>

\* mutant of WithLockFn: ReleaseLock follows fn() instead of being
\* deferred, so that a panic leaves WithLock without it
WithLockFn_NoDefer(p) ==
    /\ Running(p, "held") /\ wl[p].st = "fn"
    /\ \E o \in {"nil", "error", "panic"} :
          IF o = "panic"
          THEN /\ wl' = [wl EXCEPT ![p].st = "returned", ![p].fn = o, ![p].out = o,
                                   ![p].mine = (lockFile.st = "rec" /\ lockFile.pid = p)]
               /\ UNCHANGED <<pc, loc>>
          ELSE /\ wl' = [wl EXCEPT ![p].st = "defer", ![p].fn = o]
               /\ Goto(p, "r_exists")
               /\ loc' = [loc EXCEPT ![p] = NoLoc]
    /\ UNCHANGED <<lockFile, res, alive, clock, txVars, goos, storeVars>>

\* WithLock: fn returns nil, returns an error or panics, and the deferred
\* function calls ReleaseLock
WithLockFn(p) ==
    /\ Running(p, "held") /\ wl[p].st = "fn"
    /\ \E o \in {"nil", "error", "panic"} :
          wl' = [wl EXCEPT ![p].st = "defer", ![p].fn = o]
    /\ Goto(p, "r_exists")
    /\ loc' = [loc EXCEPT ![p] = NoLoc]
    /\ UNCHANGED <<lockFile, res, alive, clock, txVars, goos, storeVars>>

\* WithLock: ReleaseLock is over (its error is dropped); the deferred
\* function re-panics what it recovered, or WithLock returns fn's result
WithLockReturn(p) ==
    /\ Running(p, "idle") /\ wl[p].st = "defer"
    /\ wl' = [wl EXCEPT ![p].st = "returned", ![p].out = wl[p].fn,
                        ![p].mine = (lockFile.st = "rec" /\ lockFile.pid = p)]
    /\ UNCHANGED <<lockFile, pc, loc, res, alive, clock, txVars, goos, storeVars>>

\* a process is killed wherever it is
Kill(p) ==
    /\ alive[p]
    /\ alive' = [alive EXCEPT ![p] = FALSE]
    /\ UNCHANGED <<lockFile, pc, loc, res, clock, wl, txVars, goos, storeVars>>

\* time passes
Tick ==
    /\ clock + TickStep <= MaxClock
    /\ clock' = clock + TickStep
    /\ UNCHANGED <<lockFile, pc, loc, res, alive, wl, txVars, goos, storeVars>>

LockNext ==
    \/ \E p \in Procs : AcqStart(p)
    \/ \E p \in Procs : AcqExists(p)
    \/ \E p \in Procs : AcqRead(p)
    \/ \E p \in Procs : AcqProbe(p)
    \/ \E p \in Procs : AcqRead2(p)
    \/ \E p \in Procs : AcqCreate(p)
    \/ \E p \in Procs : AcqWrite(p)
    \/ \E p \in Procs : RelStart(p)
    \/ \E p \in Procs : RelExists(p)
    \/ \E p \in Procs : RelRead(p)
    \/ \E p \in Procs : RelRemove(p)
    \/ \E p \in Procs : Kill(p)
    \/ Tick

SpecLock == LockInit /\ [][LockNext]_vars

\* commands: every process calls WithLock once, and IsStale at any time
WithLockNext ==
    \/ \E p \in Procs : WithLockStart(p)
    \/ \E p \in Procs : AcqExists(p)
    \/ \E p \in Procs : AcqRead(p)
    \/ \E p \in Procs : AcqProbe(p)
    \/ \E p \in Procs : AcqRead2(p)
    \/ \E p \in Procs : AcqCreate(p)
    \/ \E p \in Procs : AcqWrite(p)
    \/ \E p \in Procs : WithLockFail(p)
    \/ \E p \in Procs : WithLockInvoke(p)
    \/ \E p \in Procs : WithLockFn(p)
    \/ \E p \in Procs : RelExists(p)
    \/ \E p \in Procs : RelRead(p)
    \/ \E p \in Procs : RelRemove(p)
    \/ \E p \in Procs : WithLockReturn(p)
    \/ \E p \in Procs : IsStaleStart(p)
    \/ \E p \in Procs : IsStaleRead(p)
    \/ \E p \in Procs : IsStaleProbe(p)
    \/ \E p \in Procs : Kill(p)
    \/ Tick

SpecWithLock == LockInit /\ [][WithLockNext]_vars

\* ------------------------------------------------------------------------
\* Properties of the lock (checked under SpecLock)
\* ------------------------------------------------------------------------
Holders == {p \in Procs : alive[p] /\ pc[p] = "held"}
AcquireReturned(p) == res[p].fn = "AcquireLock" /\ pc[p] \in {"idle", "held"}
ReleaseReturned(p) == res[p].fn = "ReleaseLock" /\ pc[p] = "idle"

\* C2: at no time do two processes both hold the lock: of the processes
\* racing AcquireLock at most one has it returned nil and not yet released.
C2_LockExclusivity == Cardinality(Holders) <= 1

InAcquireCheck(p) == pc[p] \in {"a_read", "a_probe", "a_read2"}

C10_Returned ==
    \A p \in Procs : (AcquireReturned(p) /\ loc[p].saw) =>
        /\ res[p].err \in {"LockHeld", "StaleLock"}
        /\ pc[p] = "idle"
        /\ (res[p].err = "LockHeld") =
              (loc[p].rd.ok /\ loc[p].age <= StaleAge /\ loc[p].aliveSeen)

C10_NoWrite ==
    \A p \in Procs :
        (InAcquireCheck(p) /\ pc'[p] # pc[p]) => lockFile' = lockFile

FoundKilledHolder(p, q) ==
    /\ goos = "linux" /\ p # q /\ ~alive[q]
    /\ AcquireReturned(p) /\ loc[p].saw
    /\ loc[p].rd.ok /\ loc[p].rd.pid = q
    /\ loc[p].age <= StaleAge /\ ~loc[p].aliveSeen

\* C14: when the holder of the lock was killed, the next invocation's
\* AcquireLock returns without waiting, having detected the stale record
\* and cleared it: the record is no longer in the lock file, so that the
\* lock can be acquired again.
C14_StaleCleared ==
    \A p, q \in Procs :
        FoundKilledHolder(p, q) =>
            /\ res[p].err = "StaleLock"
            /\ ~(lockFile.st = "rec" /\ lockFile.pid = q)

\* ------------------------------------------------------------------------
\* Properties of IsStale and WithLock (checked under SpecWithLock)
\* ------------------------------------------------------------------------
IsStaleReturned(p) == res[p].fn = "IsStale" /\ pc[p] \in {"idle", "held"}

\* C11: IsStale reports a malformed record stale, reports a record whose
\* process does not exist stale whatever its age, and never reports stale
\* a record younger than the threshold that names the calling process.
C11_StaleDetection ==
    \A p \in Procs : IsStaleReturned(p) =>
        /\ ~loc[p].rd.ok => loc[p].stale
        /\ loc[p].dead => loc[p].stale
        /\ (loc[p].rd.ok /\ loc[p].rd.pid = p /\ loc[p].age < StaleAge) =>
              ~loc[p].stale

\* C12: IsStale reports stale every record older than the lock's
\* configured threshold LockTimeout, even if its process is alive: no
\* other age constant decides staleness.
C12_SingleThreshold ==
    \A p \in Procs :
        (IsStaleReturned(p) /\ loc[p].rd.ok /\ loc[p].age > LockTimeout) =>
            loc[p].stale

\* C13: WithLock invokes fn only after AcquireLock returned nil and
\* otherwise returns AcquireLock's error; once fn has returned or
\* panicked, the lock file does not hold this process's record any more
\* when WithLock returns fn's error or re-panics.
C13_WithLock ==
    \A p \in Procs :
        /\ wl[p].invoked => wl[p].acq = ""
        /\ (wl[p].st = "returned" /\ ~wl[p].invoked) =>
              (wl[p].acq # "" /\ wl[p].out = wl[p].acq)
        /\ (wl[p].st = "returned" /\ wl[p].invoked) =>
              /\ wl[p].out = wl[p].fn
              /\ ~wl[p].mine

\* C13 witness: fn panicked, the lock file was removed and the panic was
\* propagated.
C13_Witness ==
    \E p \in Procs :
        /\ wl[p].st = "returned" /\ wl[p].invoked
        /\ wl[p].fn = "panic" /\ wl[p].out = "panic"
        /\ loc[p].removed /\ lockFile = Absent

\* ------------------------------------------------------------------------
\* Backups (internal/core/backup.go).  The backup tree is
\* ~/.dotcor/backups/<timestamp>/<name>; the timestamp is the local wall
\* clock formatted with TimestampFormat.
\* ------------------------------------------------------------------------
DotDir == <<"h", ".dotcor">>
\* core.GetBackupDir
GetBackupDir == DotDir \o <<"backups">>
\* a directory in the backup tree whose name is no timestamp
MiscDir == GetBackupDir \o <<"misc">>

\* filepath.Base
Base(p) == p[Len(p)]

\* the instants (seconds since the epoch, UTC) at which the clock is read
StoreTimes == {0, 1, 3600}
\* the offsets of the local time zone from UTC
TimeZones == {0 - 3600, 0, 3600}
\* the wall-clock readings these give
WallTimes == {t + z : t \in StoreTimes, z \in TimeZones}

\* time.Time.Format(TimestampFormat) of a wall-clock reading
TimestampFormat(wall) ==
    CASE wall = 0 - 3600 -> "1969-12-31_23-00-00"
      [] wall = 0 - 3599 -> "1969-12-31_23-00-01"
      [] wall = 0 -> "1970-01-01_00-00-00"
      [] wall = 1 -> "1970-01-01_00-00-01"
      [] wall = 3600 -> "1970-01-01_01-00-00"
      [] wall = 3601 -> "1970-01-01_01-00-01"
      [] wall = 7200 -> "1970-01-01_02-00-00"

\* time.Parse(TimestampFormat, name): a layout without a zone is read as
\* UTC, so the instant returned is the wall-clock reading itself; [ok, t]
TimeParse(name) ==
    IF \E w \in WallTimes : TimestampFormat(w) = name
    THEN [ok |-> TRUE, t |-> CHOOSE w \in WallTimes : TimestampFormat(w) = name]
    ELSE [ok |-> FALSE, t |-> 0]

\* time.Now().Format(TimestampFormat): time.Now() carries the Local zone
NowStamp(now, zone) == TimestampFormat(now + zone)

\* fmt.Sprintf("%s_%d%s", name, counter, ext) for the file name "a"
Suffixed == <<"a_1", "a_2", "a_3", "a_4", "a_5">>
Sprintf(name, counter) ==
    IF counter <= Len(Suffixed) THEN Suffixed[counter] ELSE "a_N"

\* every path of the backup tree in time zone z
BackupPaths(z) ==
    {DotDir, GetBackupDir, MiscDir}
    \cup { GetBackupDir \o <<NowStamp(t, z)>> : t \in StoreTimes }
    \cup { GetBackupDir \o <<NowStamp(t, z), n>> :
             t \in StoreTimes, n \in {"a"} \cup {Suffixed[i] : i \in 1..Len(Suffixed)} }

\* the collision loop of CreateBackup
RECURSIVE FreePath(_, _, _, _, _)
FreePath(f, dir, filename, backupPath, counter) ==
    IF FileExists(f, backupPath)
    THEN FreePath(f, dir, filename, dir \o <<Sprintf(filename, counter)>>, counter + 1)
    ELSE backupPath

\* CreateBackup without the collision loop
CreateBackup_NoCounter(f, ro_, stamp, src) ==
    LET Copied(path, c) == [ok |-> c.ok, f |-> c.f, path |-> IF c.ok THEN path ELSE <<>>]
        Named(g, path) == Copied(path, CopyWithPermissions(g, ro_, src, path))
        Ensured(dir, e) ==
            IF ~e.ok THEN [ok |-> FALSE, f |-> e.f, path |-> <<>>]
            ELSE Named(e.f, dir \o <<Base(src)>>)
        Bucket(dir) == Ensured(dir, EnsureDir(f, ro_, dir))
    IN IF ~FileExists(f, src) THEN [ok |-> FALSE, f |-> f, path |-> <<>>]
       ELSE Bucket(GetBackupDir \o <<stamp>>)

\* CreateBackup that links to the source instead of copying it
CreateBackup_Link(f, ro_, stamp, src) ==
    LET Copied(path, c) == [ok |-> c.ok, f |-> c.f, path |-> IF c.ok THEN path ELSE <<>>]
        Named(g, path) == Copied(path, OsSymlink(g, ro_, AbsStr(src), path))
        Ensured(dir, e) ==
            IF ~e.ok THEN [ok |-> FALSE, f |-> e.f, path |-> <<>>]
            ELSE Named(e.f, FreePath(e.f, dir, Base(src), dir \o <<Base(src)>>, 1))
        Bucket(dir) == Ensured(dir, EnsureDir(f, ro_, dir))
    IN IF ~FileExists(f, src) THEN [ok |-> FALSE, f |-> f, path |-> <<>>]
       ELSE Bucket(GetBackupDir \o <<stamp>>)

\* core.CreateBackup with time.Now().Format(TimestampFormat) = stamp:
\* [ok, f, path]
CreateBackup(f, ro_, stamp, src) ==
    LET Copied(path, c) == [ok |-> c.ok, f |-> c.f, path |-> IF c.ok THEN path ELSE <<>>]
        Named(g, path) == Copied(path, CopyWithPermissions(g, ro_, src, path))
        Ensured(dir, e) ==
            IF ~e.ok THEN [ok |-> FALSE, f |-> e.f, path |-> <<>>]
            ELSE Named(e.f, FreePath(e.f, dir, Base(src), dir \o <<Base(src)>>, 1))
        Bucket(dir) == Ensured(dir, EnsureDir(f, ro_, dir))
    IN IF ~FileExists(f, src) THEN [ok |-> FALSE, f |-> f, path |-> <<>>]
       ELSE Bucket(GetBackupDir \o <<stamp>>)

\* core.RestoreBackup: [ok, f]
RestoreBackup(f, ro_, backupPath, targetPath) ==
    LET Ensured(e) ==
            IF ~e.ok THEN [ok |-> FALSE, f |-> e.f]
            ELSE CopyWithPermissions(e.f, ro_, backupPath, targetPath)
    IN IF ~FileExists(f, backupPath) THEN [ok |-> FALSE, f |-> f]
       ELSE Ensured(EnsureDir(f, ro_, Dir(targetPath)))

Under(p, q) == Len(q) > Len(p) /\ SubSeq(q, 1, Len(p)) = p

\* os.RemoveAll: removes what it can below p, then p; [ok, f]
RemoveAll(f, ro_, p) ==
    LET Stuck(q) ==
            \/ q \in ro_
            \/ \E r \in DOMAIN f : Under(q, r) /\ f[r].kind # "none" /\ r \in ro_
        Left(g) == [ok |-> NodeAt(g, p).kind = "none", f |-> g]
    IN Left([q \in DOMAIN f |->
               IF (q = p \/ Under(p, q)) /\ ~Stuck(q) THEN None ELSE f[q]])

\* the entries of dirs, newest timestamp first (sort.Slice)
RECURSIVE NewestFirst(_)
NewestFirst(names) ==
    IF names = {} THEN <<>>
    ELSE LET First(n) == <<n>> \o NewestFirst(names \ {n})
         IN First(CHOOSE n \in names :
                    \A m \in names : TimeParse(m).t <= TimeParse(n).t)

\* the deletion loop of CleanOldBackups: a failure is skipped; [f, deleted]
RECURSIVE DeleteEach(_, _, _)
DeleteEach(f, ro_, toDelete) ==
    IF toDelete = <<>> THEN [f |-> f, deleted |-> 0]
    ELSE LET Rest(r, rest) ==
                 [f |-> rest.f, deleted |-> rest.deleted + (IF r.ok THEN 1 ELSE 0)]
             Removed(r) == Rest(r, DeleteEach(r.f, ro_, Tail(toDelete)))
         IN Removed(RemoveAll(f, ro_, Head(toDelete)))

\* the loop that picks what to delete: dirs[i] for i >= keepLast (counted
\* from zero) whose timestamp is before the cutoff
RECURSIVE ToDelete(_, _, _, _)
ToDelete(dirs, i, keepLast, cutoff) ==
    IF i > Len(dirs) THEN <<>>
    ELSE (IF i > keepLast /\ TimeParse(dirs[i]).t < cutoff
          THEN <<GetBackupDir \o <<dirs[i]>> >> ELSE <<>>)
         \o ToDelete(dirs, i + 1, keepLast, cutoff)

\* os.FileInfo.Size of a file: the length of its content
FileSize(node) == Len(node.data)

\* getDirSize: the sizes of everything below path that is no directory
RECURSIVE SumSizes(_, _)
SumSizes(f, ps) ==
    IF ps = {} THEN 0
    ELSE LET Rest(q) == FileSize(f[q]) + SumSizes(f, ps \ {q})
         IN Rest(CHOOSE q \in ps : TRUE)

getDirSize(f, path) ==
    SumSizes(f, { q \in DOMAIN f : Under(path, q) /\ f[q].kind \in {"file", "link"} })

\* totalSize: the sizes of the directories picked for deletion
RECURSIVE TotalSize(_, _)
TotalSize(f, toDelete) ==
    IF toDelete = <<>> THEN 0
    ELSE getDirSize(f, Head(toDelete)) + TotalSize(f, Tail(toDelete))

\* core.CleanOldBackups with time.Now() = now: [ok, f, deleted, size]
CleanOldBackups(f, ro_, now, olderThan, keepLast) ==
    LET \* ReadDir entries that are directories with a timestamp name
        dirNames ==
            { Base(q) : q \in { e \in DOMAIN f :
                  /\ Dir(e) = GetBackupDir
                  /\ f[e].kind = "dir"
                  /\ TimeParse(Base(e)).ok } }
        Done(toDelete, d) ==
            [ok |-> TRUE, f |-> d.f, deleted |-> d.deleted,
             size |-> TotalSize(f, toDelete)]
        Picked(toDelete) == Done(toDelete, DeleteEach(f, ro_, toDelete))
    IN IF Stat(f, GetBackupDir).kind = "none"
       THEN [ok |-> TRUE, f |-> f, deleted |-> 0, size |-> 0]
       ELSE IF Stat(f, GetBackupDir).kind # "dir"
       THEN [ok |-> FALSE, f |-> f, deleted |-> 0, size |-> 0]
       ELSE Picked(ToDelete(NewestFirst(dirNames), 1, keepLast, now - olderThan))

\* Config.IsManaged
IsManaged(mem, src) == IndexOfSrc(mem, src, 1) # 0

\* processAddFile of the add command (no dry run), with
\* time.Now().Format(TimestampFormat) = stamp:
\* [w, result, bak, path, did, err]
processAddFile(w, env, stamp, src, repo) ==
    LET Out(g, result, bak, path, did, err) ==
            [w |-> g, result |-> result, bak |-> bak, path |-> path,
             did |-> did, err |-> err]
        \* b: CreateBackup; r: tx.ExecuteAll(); rs: RestoreBackup
        Restored(b, r, rs) ==
            Out([r.w EXCEPT !.f = rs.f], "error", "ok", b.path, r.did, r.err)
        Executed(b, r) ==
            IF r.err = ""
            THEN Out(r.w, "success", IF b.ok THEN "ok" ELSE "failed", b.path, r.did, "")
            ELSE IF b.path # <<>>
                 THEN Restored(b, r, RestoreBackup(r.w.f, env.ro, b.path, src))
            ELSE Out(r.w, "error", "failed", b.path, r.did, r.err)
        BackedUp(b) ==
            Executed(b, ExecuteAll([executed |-> <<>>, committed |-> FALSE],
                                   [w EXCEPT !.f = b.f], env,
                                   AddFileTransaction(src, repo)))
    IN IF ~FileExists(w.f, src)
       THEN Out(w, "error", "none", <<>>, <<>>, "file does not exist")
       ELSE IF IsManaged(w.mem, src)
       THEN Out(w, "skipped", "none", <<>>, <<>>, "")
       ELSE BackedUp(CreateBackup(w.f, env.ro, stamp, src))

\* ------------------------------------------------------------------------
\* The backup store in use: calls of CreateBackup, RestoreBackup,
\* CleanOldBackups and processAddFile, the user editing ~/a in between,
\* and the clock advancing.
\* ------------------------------------------------------------------------
MaxBackupCalls == 3

\* the values CleanOldBackups is called with (seconds; buckets to keep)
OlderThans == {1800}
KeepLasts == {0, 1}

\* the backup directory and everything below it
BackupTree(z) == BackupPaths(z) \ {DotDir}

BackupInit ==
    /\ tz \in TimeZones
    /\ fs = [p \in Paths \cup BackupPaths(tz) |->
               CASE p = PA -> File("x")
                 [] p \in {DotDir, GetBackupDir, MiscDir} -> DirNode
                 [] OTHER -> None]
    /\ cfgMem = <<>>
    /\ cfgDisk = <<>>
    \* the backup tree is writable, or it is not (permissions, full disk)
    /\ ro \in {{}, BackupTree(tz)}
    /\ xdev = FALSE
    /\ operations = <<>>
    /\ executed = <<>>
    /\ committed = FALSE
    /\ rolledBack = FALSE
    /\ snap = [f |-> fs, mem |-> cfgMem, disk |-> cfgDisk]
    /\ prev = snap
    /\ ret = [fn |-> "none", arg |-> <<>>, ok |-> TRUE, path |-> <<>>,
              bak |-> "none", did |-> <<>>, at |-> 0, ro |-> {}]
    /\ ncalls = 0
    /\ made = <<>>
    /\ goos = "linux"
    /\ LockIdle

bkFrame == <<xdev, operations, executed, committed, rolledBack, snap,
             lockFile, pc, loc, res, alive, wl, goos, tz>>

\* what a call leaves behind for the properties
Called(fn, arg, ok, path, bak, did) ==
    /\ ret' = [fn |-> fn, arg |-> arg, ok |-> ok, path |-> path,
               bak |-> bak, did |-> did, at |-> clock, ro |-> ro]
    /\ prev' = World
    /\ ncalls' = ncalls + 1

\* the backup CreateBackup returned for src
Backup(src, path) ==
    [src |-> src, path |-> path, bucket |-> Dir(path),
     data |-> Stat(fs, src).data, at |-> clock]

\* core.CreateBackup(src)
BkCreateBackup(src) ==
    /\ ncalls < MaxBackupCalls
    /\ \E r \in {CreateBackup(fs, ro, NowStamp(clock, tz), src)} :
          /\ fs' = r.f
          /\ made' = IF r.ok THEN Append(made, Backup(src, r.path)) ELSE made
          /\ Called("CreateBackup", <<src>>, r.ok, r.path, "none", <<>>)
    /\ UNCHANGED <<cfgMem, cfgDisk, ro, clock, bkFrame>>

\* core.RestoreBackup(made[i].path, target)
BkRestoreBackup(i, target) ==
    /\ ncalls < MaxBackupCalls
    /\ \E r \in {RestoreBackup(fs, ro, made[i].path, target)} :
          /\ fs' = r.f
          /\ Called("RestoreBackup", <<made[i].path, target>>, r.ok, made[i].path,
                    "none", <<>>)
    /\ UNCHANGED <<cfgMem, cfgDisk, ro, clock, made, bkFrame>>

\* core.CleanOldBackups(olderThan, keepLast)
BkCleanOldBackups(olderThan, keepLast) ==
    /\ ncalls < MaxBackupCalls
    /\ \E r \in {CleanOldBackups(fs, ro, clock, olderThan, keepLast)} :
          /\ fs' = r.f
          /\ Called("CleanOldBackups", <<olderThan, keepLast>>, r.ok, <<>>, "none", <<>>)
    /\ UNCHANGED <<cfgMem, cfgDisk, ro, clock, made, bkFrame>>

\* processAddFile(cfg, "~/a", ...)
BkAddFile ==
    /\ ncalls < MaxBackupCalls
    /\ \E r \in {processAddFile(World, Env, NowStamp(clock, tz), PA, SA)} :
          /\ fs' = r.w.f
          /\ cfgMem' = r.w.mem
          /\ cfgDisk' = r.w.disk
          /\ made' = IF r.path # <<>> THEN Append(made, Backup(PA, r.path)) ELSE made
          /\ Called("processAddFile", <<PA>>, r.result # "error", r.path, r.bak, r.did)
    /\ UNCHANGED <<ro, clock, bkFrame>>

\* the user edits ~/a
BkWrite ==
    /\ FileExists(fs, PA)
    /\ Stat(fs, PA).data # <<"z">>
    /\ fs' = WriteThrough(fs, {}, PA, <<"z">>).f
    /\ UNCHANGED <<cfgMem, cfgDisk, ro, clock, made, prev, ret, ncalls, bkFrame>>

\* time passes
BkTick ==
    /\ \E t \in StoreTimes : t > clock /\ clock' = t
    /\ UNCHANGED <<fs, cfgMem, cfgDisk, ro, made, prev, ret, ncalls, bkFrame>>

BackupNext ==
    \/ BkCreateBackup(PA)
    \/ \E i \in 1..Len(made), target \in {PA, PB} : BkRestoreBackup(i, target)
    \/ \E olderThan \in OlderThans, keepLast \in KeepLasts :
          BkCleanOldBackups(olderThan, keepLast)
    \/ BkAddFile
    \/ BkWrite
    \/ BkTick

SpecBackup == BackupInit /\ [][BackupNext]_vars

\* ------------------------------------------------------------------------
\* Properties of the backup store (checked under SpecBackup)
\* ------------------------------------------------------------------------

\* C15: when the backup that processAddFile takes before moving the file
\* into the store fails, the call fails, no operation of the transaction is
\* executed and the file is left as it was.
C15_BackupFailureFatal ==
    (ret.fn = "processAddFile" /\ ret.bak = "failed") =>
        /\ ~ret.ok
        /\ ret.did = <<>>
        /\ fs[PA] = prev.f[PA]

\* C16: every call that returns a backup returns a path at which nothing
\* existed before the call, different from the path of every backup still
\* in the tree, and leaves every such backup exactly as it was;
\* calls within the same second therefore return pairwise distinct paths
\* and never overwrite one another.
C16_DistinctBackups ==
    [][ Len(made') = Len(made) + 1 =>
          /\ Lstat(fs, made'[Len(made')].path).kind = "none"
          /\ \A i \in 1..Len(made) :
                fs[made[i].path].kind # "none" =>
                   /\ made'[Len(made')].path # made[i].path
                   /\ fs'[made[i].path] = fs[made[i].path] ]_vars

\* three backups of ~/a taken within one second, the file edited in between
C16_Witness ==
    /\ Len(made) = 3
    /\ \A i, j \in 1..Len(made) :
          /\ made[i].src = PA
          /\ made[i].at = made[j].at
          /\ i # j => made[i].path # made[j].path
          /\ fs[made[i].path] = [kind |-> "file", data |-> made[i].data]
    /\ made[1].data # made[2].data

\* the content CreateBackup found in the source when it last returned path
Snapshot(path) ==
    made[CHOOSE k \in 1..Len(made) :
            /\ made[k].path = path
            /\ \A j \in 1..Len(made) : made[j].path = path => j <= k].data

\* C17: when RestoreBackup(b, t) succeeds for a backup b that CreateBackup
\* returned, t holds a file whose content is the content the source had
\* when b was taken, whatever happened to the source since.
C17_RoundTrip ==
    [][ (ncalls' = ncalls + 1 /\ ret'.fn = "RestoreBackup" /\ ret'.ok) =>
          Stat(fs', ret'.arg[2]) =
              [kind |-> "file", data |-> Snapshot(ret'.arg[1])] ]_vars

\* a backup of ~/a restored to ~/b after ~/a was edited
C17_Witness ==
    /\ ret.fn = "RestoreBackup" /\ ret.ok
    /\ ret.arg[2] = PB
    /\ \E i \in 1..Len(made) :
          /\ made[i].path = ret.arg[1]
          /\ made[i].src = PA
          /\ fs[PB] = [kind |-> "file", data |-> made[i].data]
          /\ FileExists(fs, PA)
          /\ Stat(fs, PA).data # made[i].data

\* the buckets (timestamp directories CreateBackup made) in the tree f
Buckets(f) == { made[i].bucket : i \in 1..Len(made) } \cap
              { q \in DOMAIN f : f[q].kind = "dir" }
\* when CreateBackup made the bucket
BornAt(bucket) == made[CHOOSE i \in 1..Len(made) : made[i].bucket = bucket].at
\* the bucket is among the n newest of the tree f
AmongNewest(f, bucket, n) ==
    Cardinality({ c \in Buckets(f) : BornAt(c) > BornAt(bucket) }) < n

\* C18: when no deletion fails, CleanOldBackups(olderThan, keepLast)
\* deletes exactly the buckets that are not among the keepLast newest and
\* were created more than olderThan before the call, and leaves a directory
\* whose name is no timestamp alone.
C18_CleanExactly ==
    [][ (ncalls' = ncalls + 1 /\ ret'.fn = "CleanOldBackups" /\ ro = {}) =>
          /\ \A c \in Buckets(fs) :
                fs'[c].kind = "none" <=>
                    /\ ~AmongNewest(fs, c, ret'.arg[2])
                    /\ BornAt(c) < clock - ret'.arg[1]
          /\ fs'[MiscDir] = fs[MiscDir] ]_vars

\* ------------------------------------------------------------------------
\* Symbolic links (internal/fs/symlink.go): calls of fs.CreateSymlink and
\* fs.RemoveSymlink on a small home directory and store.
\* ------------------------------------------------------------------------
MaxSymlinkCalls == 3

SymlinkInit ==
    /\ fs \in InitFs
    /\ cfgMem = <<>>
    /\ cfgDisk = <<>>
    /\ ro = {}
    /\ xdev = FALSE
    /\ operations = <<>>
    /\ executed = <<>>
    /\ committed = FALSE
    /\ rolledBack = FALSE
    /\ snap = [f |-> fs, mem |-> cfgMem, disk |-> cfgDisk]
    /\ prev = snap
    /\ ret = [fn |-> "none", arg |-> <<>>, ok |-> TRUE, err |-> ""]
    /\ ncalls = 0
    /\ goos = "linux"
    /\ LockIdle
    /\ StoreIdle

slFrame == <<cfgMem, cfgDisk, xdev, operations, executed, committed, rolledBack,
             snap, lockVars, goos, storeVars>>

\* fs.CreateSymlink(target, link)
SlCreateSymlink(target, link) ==
    /\ ncalls < MaxSymlinkCalls
    /\ \E r \in {CreateSymlink(fs, ro, target, link)} :
          /\ fs' = r.f
          /\ ret' = [fn |-> "CreateSymlink", arg |-> <<target, link>>, ok |-> r.ok,
                     err |-> IF r.ok THEN "" ELSE "error"]
    /\ prev' = World
    /\ ncalls' = ncalls + 1
    /\ UNCHANGED <<ro, slFrame>>

\* fs.RemoveSymlink(link)
SlRemoveSymlink(link) ==
    /\ ncalls < MaxSymlinkCalls
    /\ \E r \in {RemoveSymlink(fs, ro, link)} :
          /\ fs' = r.f
          /\ ret' = [fn |-> "RemoveSymlink", arg |-> <<link>>, ok |-> r.ok, err |-> r.err]
    /\ prev' = World
    /\ ncalls' = ncalls + 1
    /\ UNCHANGED <<ro, slFrame>>

\* the environment: ~/b becomes unwritable or writable again
SlEnvChange ==
    /\ ncalls < MaxSymlinkCalls
    /\ ro' = IF ro = {} THEN {PB} ELSE {}
    /\ UNCHANGED <<fs, prev, ret, ncalls, slFrame>>

SymlinkNext ==
    \/ \E target \in {SA, PA}, link \in {PA, PB} : SlCreateSymlink(target, link)
    \/ \E link \in Leaves : SlRemoveSymlink(link)
    \/ SlEnvChange

SpecSymlink == SymlinkInit /\ [][SymlinkNext]_vars

\* C19: after a successful CreateSymlink(target, link) the path at link is
\* a symlink whose stored target is a relative path and, joined to the
\* directory of link, is the target; also when link was occupied before.
C19_RelativeLink ==
    (ret.fn = "CreateSymlink" /\ ret.ok) =>
        /\ Lstat(fs, ret.arg[2]).kind = "link"
        /\ ~IsAbs(Lstat(fs, ret.arg[2]).data)
        /\ JoinClean(Dir(ret.arg[2]), Lstat(fs, ret.arg[2]).data) = ret.arg[1]

\* ~/b, a regular file before the call, now is a relative link to the store
C19_Witness ==
    /\ ret.fn = "CreateSymlink" /\ ret.ok
    /\ ret.arg = <<SA, PB>>
    /\ prev.f[PB].kind = "file"
    /\ fs[PB] = Link(<<"s", "a">>)

\* C20: RemoveSymlink(link) removes the path only if it is a symlink, and
\* then nothing but the link; for a regular file, a directory or an absent
\* path it fails with NotASymlink and leaves the filesystem unchanged.
C20_RemoveOnlySymlinks ==
    ret.fn = "RemoveSymlink" =>
        /\ Lstat(prev.f, ret.arg[1]).kind # "link" =>
              /\ ~ret.ok
              /\ ret.err = "NotASymlink"
              /\ fs = prev.f
        /\ ret.ok =>
              /\ Lstat(prev.f, ret.arg[1]).kind = "link"
              /\ Lstat(fs, ret.arg[1]).kind = "none"
        /\ \A q \in DOMAIN fs : q # ret.arg[1] => fs[q] = prev.f[q]

\* a link to an existing file is removed and the file is still there
C20_Witness ==
    /\ ret.fn = "RemoveSymlink" /\ ret.ok
    /\ prev.f[ret.arg[1]].kind = "link"
    /\ FileExists(prev.f, ret.arg[1])
    /\ fs[ret.arg[1]] = None
    /\ LET target == ResolvePath(prev.f, ret.arg[1], MaxLinkDepth)
       IN target # ret.arg[1] /\ fs[target] = prev.f[target] /\ fs[target].kind = "file"

\* ------------------------------------------------------------------------
\* Path functions (internal/config/paths.go) applied to drawn inputs.
\* Nothing but ret changes: ret.arg holds the input, ret.out the result.
\* ------------------------------------------------------------------------
\* every variable but ret at rest
Quiet ==
    /\ fs = [p \in Paths |-> IF p = PA THEN File("x") ELSE None]
    /\ cfgMem = <<>>
    /\ cfgDisk = <<>>
    /\ ro = {}
    /\ xdev = FALSE
    /\ operations = <<>>
    /\ executed = <<>>
    /\ committed = FALSE
    /\ rolledBack = FALSE
    /\ snap = [f |-> fs, mem |-> cfgMem, disk |-> cfgDisk]
    /\ prev = snap
    /\ ncalls = 0
    /\ goos = "linux"
    /\ LockIdle
    /\ StoreIdle

quietVars == <<fs, cfgMem, cfgDisk, ro, xdev, operations, executed, committed,
               rolledBack, snap, prev, ncalls, lockVars, goos, storeVars>>

\* the longest path drawn, in components
MaxPathLen == 3

\* the components a drawn path is made of
Components == {"h", "s", ".", ".."}

RECURSIVE SeqsUpTo(_, _)
SeqsUpTo(S, n) ==
    IF n = 0 THEN {<<>>}
    ELSE SeqsUpTo(S, n - 1) \cup
         { Append(q, c) : q \in { r \in SeqsUpTo(S, n - 1) : Len(r) = n - 1 }, c \in S }

\* filepath.Clean of the absolute path with these components
CleanAbs(comps) == JoinClean(<<>>, comps)

RelInit ==
    /\ Quiet
    /\ \E A, B \in SeqsUpTo(Components, MaxPathLen) :
          ret = [fn |-> "input", arg |-> <<A, B>>, out |-> <<>>]

\* config.ComputeRelativeSymlink(A, B); ExpandPath cleans both paths
RelCompute ==
    /\ ret.fn = "input"
    /\ ret' = [ret EXCEPT !.fn = "ComputeRelativeSymlink",
                          !.out = ComputeRelativeSymlink(CleanAbs(ret.arg[1]),
                                                         CleanAbs(ret.arg[2]))]
    /\ UNCHANGED quietVars

\* filepath.Join(filepath.Dir(A), rel)
RelJoin ==
    /\ ret.fn = "ComputeRelativeSymlink"
    /\ ret' = [ret EXCEPT !.fn = "Join",
                          !.out = JoinClean(Dir(CleanAbs(ret.arg[1])), ret.out)]
    /\ UNCHANGED quietVars

RelNext == RelCompute \/ RelJoin

SpecRel == RelInit /\ [][RelNext]_vars

HomeStr == <<"/", "u">>
CwdStr == <<"/", "v">>

\* the names a drawn path is made of ("uv" starts like the home "u")
NameStrs == { <<"u">>, <<"u", "v">>, <<"v">>, <<".", ".">> }

\* the longest string path drawn, in components
MaxNormLen == 3

\* the string of the absolute path with these components
RECURSIVE PathStr(_)
PathStr(comps) ==
    IF comps = <<>> THEN <<>>
    ELSE <<"/">> \o Head(comps) \o PathStr(Tail(comps))

\* strings.Split(s, "/") without the empty components; cur is the component
\* being read
RECURSIVE SplitStr(_, _)
SplitStr(s, cur) ==
    IF s = <<>> THEN (IF cur = <<>> THEN <<>> ELSE <<cur>>)
    ELSE IF Head(s) = "/"
         THEN (IF cur = <<>> THEN <<>> ELSE <<cur>>) \o SplitStr(Tail(s), <<>>)
    ELSE SplitStr(Tail(s), Append(cur, Head(s)))

\* the components of a rooted path after "." and ".." are resolved
RECURSIVE CleanComps(_, _)
CleanComps(done, rest) ==
    IF rest = <<>> THEN done
    ELSE IF Head(rest) = <<".">> THEN CleanComps(done, Tail(rest))
    ELSE IF Head(rest) = <<".", ".">>
         THEN CleanComps(IF done = <<>> THEN <<>> ELSE SubSeq(done, 1, Len(done) - 1),
                         Tail(rest))
    ELSE CleanComps(Append(done, Head(rest)), Tail(rest))

\* filepath.Clean of an absolute path string
FilepathClean(s) ==
    LET Rooted(str) == IF str = <<>> THEN <<"/">> ELSE str
    IN Rooted(PathStr(CleanComps(<<>>, SplitStr(s, <<>>))))

\* filepath.Join
FilepathJoin(a, b) == FilepathClean(a \o <<"/">> \o b)

\* filepath.Abs
FilepathAbs(s) ==
    IF s # <<>> /\ Head(s) = "/" THEN FilepathClean(s) ELSE FilepathJoin(CwdStr, s)

\* strings.HasPrefix / strings.TrimPrefix
HasPrefix(s, pre) == Len(s) >= Len(pre) /\ SubSeq(s, 1, Len(pre)) = pre
TrimPrefix(s, pre) == IF HasPrefix(s, pre) THEN SubSeq(s, Len(pre) + 1, Len(s)) ELSE s

\* config.ExpandPath (no environment variables in the string)
ExpandPath(path) ==
    IF path = <<"~">> THEN HomeStr
    ELSE IF HasPrefix(path, <<"~", "/">>)
         THEN FilepathClean(FilepathAbs(FilepathJoin(HomeStr, SubSeq(path, 3, Len(path)))))
    ELSE FilepathClean(FilepathAbs(path))

\* config.NormalizePath
NormalizePath(path) ==
    LET Marked(expanded, relative) ==
            IF relative = <<>> THEN <<"~">>
            ELSE IF Head(relative) = "/" THEN <<"~">> \o relative
            ELSE <<"~", "/">> \o relative
        Expanded(expanded) ==
            IF HasPrefix(expanded, FilepathClean(HomeStr))
            THEN Marked(expanded, TrimPrefix(expanded, FilepathClean(HomeStr)))
            ELSE expanded
    IN Expanded(FilepathClean(ExpandPath(path)))

\* the path is the home directory or lies below it
UnderHome(s) ==
    LET Prefix(h, c) == Len(c) >= Len(h) /\ SubSeq(c, 1, Len(h)) = h
    IN Prefix(SplitStr(HomeStr, <<>>), SplitStr(s, <<>>))

NormInit ==
    /\ Quiet
    /\ \E comps \in SeqsUpTo(NameStrs, MaxNormLen) \ {<<>>} :
          ret = [fn |-> "input", arg |-> PathStr(comps), norm |-> <<>>, out |-> <<>>]

\* config.NormalizePath(p)
NormNormalize ==
    /\ ret.fn = "input"
    /\ ret' = [ret EXCEPT !.fn = "NormalizePath", !.norm = NormalizePath(ret.arg)]
    /\ UNCHANGED quietVars

\* config.ExpandPath of what NormalizePath returned
NormExpand ==
    /\ ret.fn = "NormalizePath"
    /\ ret' = [ret EXCEPT !.fn = "ExpandPath", !.out = ExpandPath(ret.norm)]
    /\ UNCHANGED quietVars

NormNext == NormNormalize \/ NormExpand

SpecNorm == NormInit /\ [][NormNext]_vars

\* C22: NormalizePath puts the marker ~ in place of the home prefix only
\* for paths under the home directory, returns every other path cleaned and
\* otherwise unchanged, and ExpandPath takes its result back to the cleaned
\* path.
C22_NormalizeInverse ==
    ret.fn = "ExpandPath" =>
        /\ ret.out = FilepathClean(ret.arg)
        /\ ~UnderHome(FilepathClean(ret.arg)) => ret.norm = FilepathClean(ret.arg)

\* ------------------------------------------------------------------------
\* File Operations one at a time (SpecOps): Do on some filesystem, then
\* Undo.  Some operations keep what Undo needs in unexported fields; sv is
\* [target, backupPath, existed] for savedTarget, backupPath and existed.
\* Do returns [ok, f, sv], Undo returns [ok, f].
\*   rmlink a = Link     rmfile a = Path     write a = Path, b = Content
\*   mkdir  a = Path
\* ------------------------------------------------------------------------
NoSaved == [target |-> <<>>, backupPath |-> <<>>, existed |-> FALSE]

\* RemoveSymlinkOp.Do: os.Readlink, then os.Remove
RemoveSymlinkOpDo(f, ro_, op, sv) ==
    LET Removed(r) ==
            [ok |-> r.ok, f |-> r.f, sv |-> [sv EXCEPT !.target = Lstat(f, op.a).data]]
    IN IF Lstat(f, op.a).kind # "link" THEN [ok |-> FALSE, f |-> f, sv |-> sv]
       ELSE Removed(OsRemove(f, ro_, op.a))

\* RemoveSymlinkOp.Undo
RemoveSymlinkOpUndo(f, ro_, op, sv) == OsSymlink(f, ro_, sv.target, op.a)

\* RemoveFileOp.Do
RemoveFileOpDo(f, ro_, stamp, op, sv) ==
    LET Removed(b, r) ==
            [ok |-> r.ok, f |-> r.f, sv |-> [sv EXCEPT !.backupPath = b.path]]
        BackedUp(b) ==
            IF ~b.ok THEN [ok |-> FALSE, f |-> b.f, sv |-> sv]
            ELSE Removed(b, OsRemove(b.f, ro_, op.a))
    IN BackedUp(CreateBackup(f, ro_, stamp, op.a))

\* RemoveFileOp.Undo
RemoveFileOpUndo(f, ro_, op, sv) ==
    IF sv.backupPath = <<>> THEN [ok |-> FALSE, f |-> f]
    ELSE RestoreBackup(f, ro_, sv.backupPath, op.a)

\* WriteFileOp.Do
WriteFileOpDo(f, ro_, stamp, op, sv) ==
    LET Written(sv2, r) == [ok |-> r.ok, f |-> r.f, sv |-> sv2]
        BackedUp(b) ==
            IF ~b.ok THEN [ok |-> FALSE, f |-> b.f, sv |-> [sv EXCEPT !.existed = TRUE]]
            ELSE Written([sv EXCEPT !.existed = TRUE, !.backupPath = b.path],
                         WriteThrough(b.f, ro_, op.a, op.b))
    IN IF FileExists(f, op.a) THEN BackedUp(CreateBackup(f, ro_, stamp, op.a))
       ELSE Written(sv, WriteThrough(f, ro_, op.a, op.b))

\* WriteFileOp.Undo
WriteFileOpUndo(f, ro_, op, sv) ==
    IF sv.existed /\ sv.backupPath # <<>>
    THEN RestoreBackup(f, ro_, sv.backupPath, op.a)
    ELSE OsRemove(f, ro_, op.a)

\* CreateDirOp.Do
CreateDirOpDo(f, ro_, op) == EnsureDir(f, ro_, op.a)

\* CreateDirOp.Undo that removes the directory with whatever is in it
CreateDirOpUndo_RemoveAll(f, ro_, op) ==
    IF Stat(f, op.a).kind # "dir" THEN [ok |-> FALSE, f |-> f]
    ELSE RemoveAll(f, ro_, op.a)

\* CreateDirOp.Undo: os.ReadDir, then os.Remove when there are no entries
CreateDirOpUndo(f, ro_, op) ==
    IF Stat(f, op.a).kind # "dir" THEN [ok |-> FALSE, f |-> f]
    ELSE IF HasChildren(f, op.a) THEN [ok |-> TRUE, f |-> f]
    ELSE OsRemove(f, ro_, op.a)

\* Do of a file Operation: [ok, f, sv]
FileOpDo(f, env, stamp, op, sv) ==
    LET Plain(r) == [ok |-> r.ok, f |-> r.f, sv |-> sv]
    IN CASE op.type = "move" -> Plain(MoveFile(f, env.ro, env.xdev, op.a, op.b))
         [] op.type = "copy" -> Plain(CopyWithPermissions(f, env.ro, op.a, op.b))
         [] op.type = "symlink" -> Plain(CreateSymlink(f, env.ro, op.a, op.b))
         [] op.type = "rmlink" -> RemoveSymlinkOpDo(f, env.ro, op, sv)
         [] op.type = "rmfile" -> RemoveFileOpDo(f, env.ro, stamp, op, sv)
         [] op.type = "write" -> WriteFileOpDo(f, env.ro, stamp, op, sv)
         [] op.type = "mkdir" -> Plain(CreateDirOpDo(f, env.ro, op))

\* Undo of a file Operation: [ok, f]
FileOpUndo(f, env, op, sv) ==
    CASE op.type = "move" -> MoveFile(f, env.ro, env.xdev, op.b, op.a)
      [] op.type = "copy" -> OsRemove(f, env.ro, op.b)
      [] op.type = "symlink" -> OsRemove(f, env.ro, op.b)
      [] op.type = "rmlink" -> RemoveSymlinkOpUndo(f, env.ro, op, sv)
      [] op.type = "rmfile" -> RemoveFileOpUndo(f, env.ro, op, sv)
      [] op.type = "write" -> WriteFileOpUndo(f, env.ro, op, sv)
      [] op.type = "mkdir" -> CreateDirOpUndo(f, env.ro, op)

\* the operations tried
OpsF ==
    { Op("move", PA, SA), Op("move", PA, PB),
      Op("copy", PA, PB), Op("copy", PA, SA),
      Op("symlink", SA, PA), Op("symlink", SA, PB),
      Op("rmlink", PB, <<>>), Op("rmlink", PA, <<>>),
      Op("rmfile", PA, <<>>), Op("rmfile", PB, <<>>),
      Op("write", PA, <<"w">>), Op("write", PB, <<"w">>),
      Op("mkdir", StoreDir, <<>>), Op("mkdir", PB, <<>>) }

\* the paths an operation names
Touched(op) ==
    IF op.type \in {"move", "copy"} THEN {op.a, op.b}
    ELSE IF op.type = "symlink" THEN {op.b}
    ELSE {op.a}

\* the filesystems an operation is tried on
OpsInitFs ==
    { [p \in Paths \cup BackupPaths(0) |->
         CASE p = PA -> a
           [] p = PB -> b
           [] p = StoreDir -> IF st = "none" THEN None ELSE DirNode
           [] p = SA -> IF st = "full" THEN File("y") ELSE None
           [] OTHER -> None] :
      a \in {None, File("x"), Link(<<"s", "a">>)},
      b \in {None, File("y"), DirNode, Link(<<"a">>)},
      st \in {"none", "empty", "full"} }

OpsInit ==
    /\ fs \in OpsInitFs
    /\ cfgMem = <<>>
    /\ cfgDisk = <<>>
    /\ ro = {}
    /\ xdev \in BOOLEAN
    /\ operations = <<>>
    /\ executed = <<>>
    /\ committed = FALSE
    /\ rolledBack = FALSE
    /\ snap = [f |-> fs, mem |-> cfgMem, disk |-> cfgDisk]
    /\ prev = snap
    /\ ret = [fn |-> "new", op |-> Op("", <<>>, <<>>), ok |-> TRUE, sv |-> NoSaved]
    /\ ncalls = 0
    /\ LockIdle
    /\ goos = "linux"
    /\ StoreIdle

opsFrame == <<cfgMem, cfgDisk, ro, xdev, operations, executed, committed,
              rolledBack, snap, lockVars, goos, storeVars>>

\* op.Do() on a fresh Operation
OpsDo(op) ==
    /\ ret.fn = "new"
    /\ \E r \in {FileOpDo(fs, Env, NowStamp(clock, tz), op, NoSaved)} :
          /\ fs' = r.f
          /\ ret' = [fn |-> "Do", op |-> op, ok |-> r.ok, sv |-> r.sv]
    /\ prev' = World
    /\ ncalls' = ncalls + 1
    /\ UNCHANGED opsFrame

\* op.Undo() after a Do that succeeded
OpsUndo ==
    /\ ret.fn = "Do" /\ ret.ok
    /\ \E r \in {FileOpUndo(fs, Env, ret.op, ret.sv)} :
          /\ fs' = r.f
          /\ ret' = [ret EXCEPT !.fn = "Undo", !.ok = r.ok]
    /\ prev' = World
    /\ ncalls' = ncalls + 1
    /\ UNCHANGED opsFrame

\* after CreateDirOp.Do somebody puts a file into the directory
OpsFill ==
    /\ ret.fn = "Do" /\ ret.ok /\ ret.op = Op("mkdir", StoreDir, <<>>)
    /\ fs[SA].kind = "none"
    /\ fs' = [fs EXCEPT ![SA] = File("z")]
    /\ UNCHANGED <<prev, ret, ncalls, opsFrame>>

OpsNext == (\E op \in OpsF : OpsDo(op)) \/ OpsUndo \/ OpsFill

SpecOps == OpsInit /\ [][OpsNext]_vars

\* C24: for MoveFileOp, CopyFileOp, CreateSymlinkOp, RemoveSymlinkOp,
\* WriteFileOp and RemoveFileOp, after a Do that succeeded and the Undo
\* that followed it, every path the operation names exists or not as
\* before Do, with the kind and the content it had.
C24_OpReversible ==
    (ret.fn = "Undo" /\ ret.op.type # "mkdir") =>
        \A p \in Touched(ret.op) : fs[p] = snap.f[p]

\* C26: CreateDirOp.Undo on a directory with entries returns success and
\* changes nothing; on an empty directory it removes the directory, and
\* nothing else.
C26_UndoOnlyIfEmpty ==
    (ret.fn = "Undo" /\ ret.op.type = "mkdir") =>
        IF HasChildren(prev.f, ret.op.a)
        THEN ret.ok /\ fs = prev.f
        ELSE /\ ret.ok
             /\ fs = [prev.f EXCEPT ![ret.op.a] = None]

\* C26 witness: a file was put into the directory after Do; Undo returned
\* success and the directory and the file are still there.
C26_Witness ==
    /\ ret.fn = "Undo" /\ ret.op = Op("mkdir", StoreDir, <<>>) /\ ret.ok
    /\ snap.f[StoreDir].kind = "none"
    /\ fs[StoreDir].kind = "dir" /\ fs[SA] = File("z")

\* C26 witness of the other branch: the empty directory was removed.
C26_WitnessEmpty ==
    /\ ret.fn = "Undo" /\ ret.op = Op("mkdir", StoreDir, <<>>) /\ ret.ok
    /\ prev.f[StoreDir].kind = "dir" /\ fs[StoreDir].kind = "none"

\* ------------------------------------------------------------------------
\* CleanOldBackups on a backup tree some of whose files cannot be removed
\* (SpecClean).
\* ------------------------------------------------------------------------
MaxCleanCalls == 2

\* the instants at which CleanOldBackups runs
CleanTimes == {3600, 5401}

\* the files a bucket can hold
BucketFiles == {"a", "a_1"}

\* the backup trees: every bucket is absent, holds one file or holds two
CleanInitFs ==
    { [p \in Paths \cup BackupPaths(0) |->
         CASE p = PA -> File("x")
           [] p \in {DotDir, GetBackupDir} -> DirNode
           [] Len(p) = 4 /\ Dir(p) = GetBackupDir /\ p # MiscDir ->
                IF n[Base(p)] > 0 THEN DirNode ELSE None
           [] Len(p) = 5 /\ Base(p) \in BucketFiles ->
                IF n[Base(Dir(p))] >= (IF Base(p) = "a" THEN 1 ELSE 2)
                THEN File("x") ELSE None
           [] OTHER -> None] :
      n \in [ {NowStamp(t, 0) : t \in StoreTimes} -> 0..2 ] }

CleanInit ==
    /\ tz = 0
    /\ fs \in CleanInitFs
    /\ cfgMem = <<>>
    /\ cfgDisk = <<>>
    \* at most one file of the tree cannot be removed
    /\ ro \in {{}} \cup { {q} : q \in { e \in DOMAIN fs :
                                          Len(e) = 5 /\ fs[e].kind = "file" } }
    /\ xdev = FALSE
    /\ operations = <<>>
    /\ executed = <<>>
    /\ committed = FALSE
    /\ rolledBack = FALSE
    /\ snap = [f |-> fs, mem |-> cfgMem, disk |-> cfgDisk]
    /\ prev = snap
    /\ ret = [fn |-> "none", arg |-> <<>>, ok |-> TRUE, deleted |-> 0, size |-> 0,
              picked |-> <<>>]
    /\ ncalls = 0
    /\ made = <<>>
    /\ goos = "linux"
    /\ lockFile = Absent
    /\ pc = [p \in Procs |-> "idle"]
    /\ loc = [p \in Procs |-> NoLoc]
    /\ res = [p \in Procs |-> NoRes]
    /\ alive = [p \in Procs |-> TRUE]
    /\ clock \in CleanTimes
    /\ wl = [p \in Procs |-> NoWl]

\* the directories a call picks for deletion in the tree f
PickedIn(f, now, olderThan, keepLast) ==
    ToDelete(NewestFirst({ Base(q) : q \in { e \in DOMAIN f :
                              /\ Dir(e) = GetBackupDir
                              /\ f[e].kind = "dir"
                              /\ TimeParse(Base(e)).ok } }),
             1, keepLast, now - olderThan)

\* core.CleanOldBackups(olderThan, keepLast)
ClCleanOldBackups(olderThan, keepLast) ==
    /\ ncalls < MaxCleanCalls
    /\ \E r \in {CleanOldBackups(fs, ro, clock, olderThan, keepLast)} :
          /\ fs' = r.f
          /\ ret' = [fn |-> "CleanOldBackups", arg |-> <<olderThan, keepLast>>,
                     ok |-> r.ok, deleted |-> r.deleted, size |-> r.size,
                     picked |-> PickedIn(fs, clock, olderThan, keepLast)]
    /\ prev' = World
    /\ ncalls' = ncalls + 1
    /\ UNCHANGED <<cfgMem, cfgDisk, ro, clock, made, bkFrame>>

\* the file that could not be removed can be removed now
ClRelease ==
    /\ ro # {}
    /\ ncalls > 0
    /\ ro' = {}
    /\ UNCHANGED <<fs, cfgMem, cfgDisk, clock, made, prev, ret, ncalls, bkFrame>>

CleanNext ==
    \/ \E olderThan \in OlderThans, keepLast \in KeepLasts :
          ClCleanOldBackups(olderThan, keepLast)
    \/ ClRelease

SpecClean == CleanInit /\ [][CleanNext]_vars

\* the bytes held by the backup tree f
TreeSize(f) == getDirSize(f, GetBackupDir)

\* the picked directories that are gone after the call
Gone(picked, f) == { i \in 1..Len(picked) : f[picked[i]].kind = "none" }

\* C27: a picked bucket none of whose files is stuck is gone after the
\* call, whatever happened to the others; deletedCount is the number of
\* picked buckets that are gone; freedBytes is the number of bytes the
\* backup tree holds less after the call than before it.
C27_CleanResults ==
    [][ (ncalls' = ncalls + 1 /\ ret'.fn = "CleanOldBackups" /\ ret'.ok) =>
          /\ \A i \in 1..Len(ret'.picked) :
                (\A q \in ro : ~Under(ret'.picked[i], q)) => i \in Gone(ret'.picked, fs')
          /\ ret'.deleted = Cardinality(Gone(ret'.picked, fs'))
          /\ ret'.size = TreeSize(fs) - TreeSize(fs') ]_vars

\* ------------------------------------------------------------------------
\* The remove command (cmd/dotcor/remove.go) on one managed file: ~/a is
\* managed, its content is ~/s/a and ~/a is a link to it (SpecRemove).
\* ------------------------------------------------------------------------
MaxRemoveCalls == 2

\* cleanEmptyDirs: removes dir and its ancestors as long as they are empty
RECURSIVE cleanEmptyDirs(_, _, _)
cleanEmptyDirs(f, ro_, dir) ==
    LET Removed(r) == IF ~r.ok \/ Len(dir) <= 1 THEN r.f
                      ELSE cleanEmptyDirs(r.f, ro_, Dir(dir))
    IN IF Stat(f, dir).kind # "dir" \/ HasChildren(f, dir) THEN f
       ELSE Removed(OsRemove(f, ro_, dir))

\* processRemoveFile (no dry run) for the managed file mf, with
\* time.Now().Format(TimestampFormat) = stamp: [w, err]
processRemoveFile(w, env, stamp, mf, keepRepo) ==
    LET Out(g, err) == [w |-> g, err |-> err]
        \* rm: cfg.RemoveManagedFile in the filesystem g
        Unregistered(g, rm) ==
            Out([f |-> g, mem |-> rm.mem, disk |-> rm.disk],
                IF rm.ok THEN "" ELSE "updating config")
        Unregister(g) ==
            Unregistered(g, RemoveManagedFile(w.mem, w.disk, env.ro, mf.src))
        \* d: os.Remove(repoPath)
        Deleted(d) ==
            IF ~d.ok THEN Out([w EXCEPT !.f = d.f], "removing from repo")
            ELSE Unregister(cleanEmptyDirs(d.f, env.ro, Dir(mf.repo)))
        \* c: fs.CopyWithPermissions(repoPath, sourcePath)
        Copied(c) ==
            IF ~c.ok THEN Out([w EXCEPT !.f = c.f], "copying file back")
            ELSE Deleted(OsRemove(c.f, env.ro, mf.repo))
        CopyBack(g) ==
            IF FileExists(g, mf.repo)
            THEN Copied(CopyWithPermissions(g, env.ro, mf.repo, mf.src))
            ELSE Unregister(g)
        \* r: os.Remove(sourcePath) of the symlink
        Unlinked_(r) ==
            IF ~r.ok THEN Out([w EXCEPT !.f = r.f], "removing symlink")
            ELSE CopyBack(r.f)
        \* e: fs.EnsureDir(filepath.Dir(sourcePath))
        Ensured(isLink, e) ==
            IF ~e.ok THEN Out([w EXCEPT !.f = e.f], "creating parent directory")
            ELSE IF isLink THEN Unlinked_(OsRemove(e.f, env.ro, mf.src))
            ELSE CopyBack(e.f)
        \* g: the filesystem after the backup, whose result is dropped
        Full(isLink, g) == Ensured(isLink, EnsureDir(g, env.ro, Dir(mf.src)))
        \* r: os.Remove(sourcePath) with --keep-repo
        Kept(r) ==
            IF ~r.ok THEN Out([w EXCEPT !.f = r.f], "removing symlink")
            ELSE Unregister(r.f)
        Start(isLink) ==
            IF keepRepo
            THEN (IF isLink THEN Kept(OsRemove(w.f, env.ro, mf.src)) ELSE Unregister(w.f))
            ELSE Full(isLink,
                      IF FileExists(w.f, mf.repo)
                      THEN CreateBackup(w.f, env.ro, stamp, mf.repo).f
                      ELSE w.f)
    IN Start(Lstat(w.f, mf.src).kind = "link")

\* what can be unwritable when the command runs
RemoveROChoices == { {}, {PA}, {SA}, {CfgPath}, BackupTree(0) }

RemoveInit ==
    /\ tz = 0
    /\ \E a \in {Link(<<"s", "a">>), File("u"), None},
          sa \in {File("x"), None}, sb \in {File("y"), None} :
          fs = [p \in Paths \cup BackupPaths(0) |->
                  CASE p = PA -> a
                    [] p = StoreDir -> DirNode
                    [] p = SA -> sa
                    [] p = SB -> sb
                    [] OTHER -> None]
    /\ cfgMem = <<Entry(PA, SA)>>
    /\ cfgDisk = cfgMem
    /\ ro \in RemoveROChoices
    /\ xdev = FALSE
    /\ operations = <<>>
    /\ executed = <<>>
    /\ committed = FALSE
    /\ rolledBack = FALSE
    /\ snap = [f |-> fs, mem |-> cfgMem, disk |-> cfgDisk]
    /\ prev = snap
    /\ ret = [fn |-> "none", keepRepo |-> FALSE, err |-> "", ro |-> {}]
    /\ ncalls = 0
    /\ made = <<>>
    /\ goos = "linux"
    /\ LockIdle

\* processRemoveFile(cfg, mf, keepRepo, false) for the entry of ~/a
RmRemoveFile(keepRepo) ==
    /\ ncalls < MaxRemoveCalls
    /\ IsManaged(cfgMem, PA)
    /\ \E r \in {processRemoveFile(World, Env, NowStamp(clock, tz),
                                   cfgMem[IndexOfSrc(cfgMem, PA, 1)], keepRepo)} :
          /\ fs' = r.w.f
          /\ cfgMem' = r.w.mem
          /\ cfgDisk' = r.w.disk
          /\ ret' = [fn |-> "processRemoveFile", keepRepo |-> keepRepo,
                     err |-> r.err, ro |-> ro]
    /\ prev' = World
    /\ ncalls' = ncalls + 1
    /\ UNCHANGED <<ro, clock, made, bkFrame>>

\* what was unwritable becomes writable, or the other way round
RmEnvChange ==
    /\ ncalls < MaxRemoveCalls
    /\ \E r \in RemoveROChoices : r # ro /\ ro' = r
    /\ UNCHANGED <<fs, cfgMem, cfgDisk, clock, made, prev, ret, ncalls, bkFrame>>

RemoveNext == (\E keepRepo \in BOOLEAN : RmRemoveFile(keepRepo)) \/ RmEnvChange

SpecRemove == RemoveInit /\ [][RemoveNext]_vars

\* the home directory and the store, without the backup tree
Visible(f) == [p \in Paths |-> f[p]]

\* C28: a full removal (no --keep-repo) of one file either succeeds, and
\* then the link is gone, the content is no longer in the store and the
\* registry entry is removed in memory and on disk, or it fails, and then
\* home directory, store and registry are as they were before the call.
C28_RemoveAtomic ==
    (ret.fn = "processRemoveFile" /\ ~ret.keepRepo) =>
        IF ret.err = ""
        THEN /\ fs[PA].kind # "link" /\ fs[SA].kind = "none"
             /\ ~IsManaged(cfgMem, PA) /\ cfgDisk = cfgMem
        ELSE /\ Visible(fs) = Visible(prev.f)
             /\ cfgMem = prev.mem /\ cfgDisk = prev.disk

\* ------------------------------------------------------------------------
\* The add command (cmd/dotcor/sync.go, runAdd) on the files ~/a and ~/b
\* (SpecAdd).  ret.at is where runAdd is: "loop" (before processAddFile of
\* the next file), "tx" (ExecuteAll returned nil, tx.Commit() is next) or
\* "done"; the Transaction of the file being added is in operations,
\* executed and committed.
\* ------------------------------------------------------------------------

\* Config.MarkAsUncommitted: [ok, mem, disk]
MarkAsUncommitted(mem, disk, ro_, src) ==
    LET Saved(m, sv) == [ok |-> sv.ok, mem |-> m, disk |-> sv.disk]
        Marked(m) == Saved(m, SaveConfig(m, disk, ro_))
        Found(i) ==
            IF i = 0 THEN [ok |-> FALSE, mem |-> mem, disk |-> disk]
            ELSE Marked([mem EXCEPT ![i].unc = TRUE])
    IN Found(IndexOfSrc(mem, src, 1))

\* the repo path of a file of the home directory
RepoOf(src) == StoreDir \o <<Base(src)>>

\* how git.AutoCommit can end
AutoCommitErrs == {"", "git commit failed"}

AddInit ==
    /\ tz = 0
    /\ \E b \in {File("y"), None} :
          fs = [p \in Paths \cup BackupPaths(0)
                      \cup {GetBackupDir \o <<NowStamp(0, 0), "b">>} |->
                  CASE p = PA -> File("x")
                    [] p = PB -> b
                    [] OTHER -> None]
    /\ cfgMem = <<>>
    /\ cfgDisk = <<>>
    /\ ro \in ROChoices
    /\ xdev = FALSE
    /\ operations = <<>>
    /\ executed = <<>>
    /\ committed = FALSE
    /\ rolledBack = FALSE
    /\ snap = [f |-> fs, mem |-> cfgMem, disk |-> cfgDisk]
    /\ prev = snap
    /\ \E git \in BOOLEAN :
          ret = [fn |-> "runAdd", at |-> "loop", files |-> <<PA, PB>>,
                 added |-> <<>>, err |-> "", git |-> git]
    /\ ncalls = 0
    /\ made = <<>>
    /\ goos = "linux"
    /\ LockIdle

addFrame == <<xdev, snap, made, lockVars, goos, tz>>

\* processAddFile up to the return of tx.ExecuteAll()
AddProcessFile ==
    /\ ret.at = "loop" /\ ret.files # <<>>
    /\ \E r \in {processAddFile(World, Env, NowStamp(clock, tz),
                                Head(ret.files), RepoOf(Head(ret.files)))} :
          /\ fs' = r.w.f
          /\ cfgMem' = r.w.mem
          /\ cfgDisk' = r.w.disk
          /\ operations' = IF r.did = <<>> THEN operations
                           ELSE AddFileTransaction(Head(ret.files), RepoOf(Head(ret.files)))
          /\ executed' = IF r.result = "success" THEN OpsOf(r.did) ELSE <<>>
          /\ committed' = (r.did = <<>> /\ committed)
          /\ rolledBack' = (r.did # <<>> /\ r.result = "error")
          /\ ret' = [ret EXCEPT !.fn = "processAddFile", !.err = r.err,
                                !.at = IF r.result = "success" THEN "tx" ELSE "loop",
                                !.files = IF r.result = "success" THEN ret.files
                                          ELSE Tail(ret.files)]
    /\ prev' = World
    /\ ncalls' = ncalls + 1
    /\ UNCHANGED <<ro, addFrame>>

\* tx.Commit() and the return of processAddFile with addResultSuccess
AddCommit ==
    /\ ret.at = "tx"
    /\ \E t \in {Commit(Tx)} :
          /\ executed' = t.executed
          /\ committed' = t.committed
    /\ ret' = [ret EXCEPT !.fn = "Commit", !.at = "loop", !.files = Tail(ret.files),
                          !.added = Append(ret.added, Head(ret.files))]
    /\ prev' = World
    /\ ncalls' = ncalls + 1
    /\ UNCHANGED <<fs, cfgMem, cfgDisk, ro, operations, rolledBack, addFrame>>

\* after the loop: git.AutoCommit when git is installed and a file was
\* added; its error is printed and nothing else is done
AddAutoCommit ==
    /\ ret.at = "loop" /\ ret.files = <<>>
    /\ ret.git /\ ret.added # <<>>
    /\ \E e \in AutoCommitErrs :
          ret' = [ret EXCEPT !.fn = "AutoCommit", !.at = "done", !.err = e]
    /\ prev' = World
    /\ ncalls' = ncalls + 1
    /\ UNCHANGED <<fs, cfgMem, cfgDisk, ro, operations, executed, committed,
                   rolledBack, addFrame>>

\* after the loop, without git or without an added file
AddReturn ==
    /\ ret.at = "loop" /\ ret.files = <<>>
    /\ ~(ret.git /\ ret.added # <<>>)
    /\ ret' = [ret EXCEPT !.fn = "return", !.at = "done", !.err = ""]
    /\ prev' = World
    /\ ncalls' = ncalls + 1
    /\ UNCHANGED <<fs, cfgMem, cfgDisk, ro, operations, executed, committed,
                   rolledBack, addFrame>>

\* a location becomes unwritable or writable again while the command runs
AddEnvChange ==
    /\ ret.at = "loop" /\ ret.files # <<>>
    /\ \E r \in ROChoices : r # ro /\ ro' = r
    /\ UNCHANGED <<fs, cfgMem, cfgDisk, operations, executed, committed,
                   rolledBack, prev, ret, ncalls, addFrame>>

AddNext ==
    AddProcessFile \/ AddCommit \/ AddAutoCommit \/ AddReturn \/ AddEnvChange

SpecAdd == AddInit /\ [][AddNext]_vars

\* the registry m with the uncommitted flag of the entries of srcs set to v
Flagged(m, srcs, v) ==
    [i \in 1..Len(m) |->
        IF \E j \in 1..Len(srcs) : srcs[j] = m[i].src THEN [m[i] EXCEPT !.unc = v]
        ELSE m[i]]

\* C23: git.AutoCommit is invoked only after a Transaction of the command
\* has committed and while none is between its first Execute and its
\* Commit; it does not change the filesystem; when it succeeds the registry
\* is unchanged, and when it fails the registry differs only in that the
\* entries of the files just added have their uncommitted flag set, in
\* memory and on disk.
C23_AutoCommitAfterCommit ==
    [][ (ret'.fn = "AutoCommit" /\ ret.fn # "AutoCommit") =>
          /\ ret.added # <<>> /\ executed = <<>> /\ ret.at # "tx"
          /\ fs' = fs
          /\ cfgMem' = Flagged(cfgMem, ret.added, ret'.err # "")
          /\ cfgDisk' = Flagged(cfgDisk, ret.added, ret'.err # "") ]_vars

\* ------------------------------------------------------------------------
\* Commands and the lock (SpecCmd).  Every process runs one command:
\*   add     the pattern of add, remove, restore, sync and rebuild-config:
\*           AcquireLock, return on error, defer ReleaseLock, mutate;
\*   clone   runClone: remove the data directory, AcquireLock, go on
\*           whatever it returned;
\*   doctor  doctor --fix, checkLockFile: GetLockInfo, IsStale,
\*           ForceReleaseLock;
\*   clear   core.ClearStaleLock.
\* The data directory holds the lock file and the store ~/s.  wl[p] is
\*   st       "none", "acquire" (in AcquireLock), "release" (in the
\*            deferred ReleaseLock), "repair" or "returned"
\*   cmd      the command
\*   acq      what AcquireLock returned
\*   mutated  the command has changed the data directory or the store
\*   owned    at each such change the lock record named the process
\*   out      what the command returned
\* ------------------------------------------------------------------------
NoCmd == [st |-> "none", cmd |-> "", acq |-> "", mutated |-> FALSE,
          owned |-> TRUE, out |-> ""]

\* the lock record names p
OwnRecord(p) == lockFile.st = "rec" /\ lockFile.pid = p

\* fs.PathExists(configDir)
ConfigDirExists == fs[StoreDir].kind = "dir" \/ lockFile.st # "absent"

\* what a process writes into the store
Content == <<"p1", "p2">>

CmdInit ==
    /\ fs = [p \in Paths |->
               CASE p = PA -> File("x") [] p = StoreDir -> DirNode [] OTHER -> None]
    /\ cfgMem = <<>>
    /\ cfgDisk = <<>>
    /\ ro = {}
    /\ xdev = FALSE
    /\ operations = <<>>
    /\ executed = <<>>
    /\ committed = FALSE
    /\ rolledBack = FALSE
    /\ snap = [f |-> fs, mem |-> cfgMem, disk |-> cfgDisk]
    /\ prev = snap
    /\ ret = [fn |-> "NewTransaction", arg |-> <<>>, did |-> <<>>, undone |-> <<>>,
              err |-> "", names |-> <<>>, pre |-> <<>>, was |-> "open"]
    /\ ncalls = 0
    /\ lockFile = Absent
    /\ pc = [p \in Procs |-> "idle"]
    /\ loc = [p \in Procs |-> NoLoc]
    /\ res = [p \in Procs |-> NoRes]
    /\ alive = [p \in Procs |-> TRUE]
    /\ clock = 0
    /\ wl = [p \in Procs |-> NoCmd]
    /\ goos = "linux"
    /\ StoreIdle

cmdFrame == <<cfgMem, cfgDisk, ro, xdev, operations, executed, committed,
              rolledBack, snap, prev, ret, ncalls, alive, clock, goos, storeVars>>

\* runAdd and the like: LoadConfig, then AcquireLock
CmdAdd(p) ==
    /\ Running(p, "idle") /\ wl[p].st = "none"
    /\ IF fs[StoreDir].kind # "dir"
       THEN /\ wl' = [wl EXCEPT ![p] = [NoCmd EXCEPT !.st = "returned", !.cmd = "add",
                                                      !.out = "loading config"]]
            /\ UNCHANGED <<pc, loc>>
       ELSE /\ wl' = [wl EXCEPT ![p] = [NoCmd EXCEPT !.st = "acquire", !.cmd = "add"]]
            /\ Goto(p, "a_exists")
            /\ loc' = [loc EXCEPT ![p] = NoLoc]
    /\ UNCHANGED <<fs, lockFile, res, cmdFrame>>

\* runAdd and the like: AcquireLock returned an error, which is returned
CmdAcquireFailed(p) ==
    /\ Running(p, "idle") /\ wl[p].st = "acquire" /\ wl[p].cmd = "add"
    /\ res[p].err # ""
    /\ wl' = [wl EXCEPT ![p].st = "returned", ![p].acq = res[p].err,
                        ![p].out = "acquiring lock"]
    /\ UNCHANGED <<fs, lockFile, pc, loc, res, cmdFrame>>

\* runClone, first part: fs.RemoveAll(configDir) when the directory exists
\* (and the user agrees), then AcquireLock
CmdClone(p) ==
    /\ Running(p, "idle") /\ wl[p].st = "none"
    /\ IF ConfigDirExists
       THEN /\ fs' = [q \in Paths |-> IF OnStore(q) THEN None ELSE fs[q]]
            /\ lockFile' = Absent
            /\ loc' = [Unlinked EXCEPT ![p] = NoLoc]
            /\ wl' = [wl EXCEPT ![p] = [NoCmd EXCEPT !.st = "acquire", !.cmd = "clone",
                                                      !.mutated = TRUE,
                                                      !.owned = OwnRecord(p)]]
       ELSE /\ loc' = [loc EXCEPT ![p] = NoLoc]
            /\ wl' = [wl EXCEPT ![p] = [NoCmd EXCEPT !.st = "acquire", !.cmd = "clone"]]
            /\ UNCHANGED <<fs, lockFile>>
    /\ Goto(p, "a_exists")
    /\ UNCHANGED <<res, cmdFrame>>

\* the command changes the store: after AcquireLock returned nil, and for
\* runClone also after it returned an error; ReleaseLock is deferred only
\* when AcquireLock returned nil
CmdMutate(p) ==
    /\ alive[p] /\ wl[p].st = "acquire"
    /\ \/ pc[p] = "held"
       \/ pc[p] = "idle" /\ wl[p].cmd = "clone" /\ res[p].err # ""
    /\ fs' = [fs EXCEPT ![StoreDir] = DirNode, ![SA] = File(Content[p])]
    /\ IF pc[p] = "held"
       THEN /\ wl' = [wl EXCEPT ![p].st = "release", ![p].acq = res[p].err,
                                ![p].mutated = TRUE,
                                ![p].owned = (wl[p].owned /\ OwnRecord(p))]
            /\ Goto(p, "r_exists")
            /\ loc' = [loc EXCEPT ![p] = NoLoc]
       ELSE /\ wl' = [wl EXCEPT ![p].st = "returned", ![p].acq = res[p].err,
                                ![p].mutated = TRUE,
                                ![p].owned = (wl[p].owned /\ OwnRecord(p))]
            /\ UNCHANGED <<pc, loc>>
    /\ UNCHANGED <<lockFile, res, cmdFrame>>

\* the deferred ReleaseLock is over and the command returns
CmdReturn(p) ==
    /\ Running(p, "idle") /\ wl[p].st = "release"
    /\ wl' = [wl EXCEPT ![p].st = "returned"]
    /\ UNCHANGED <<fs, lockFile, pc, loc, res, cmdFrame>>

\* doctor --fix, checkLockFile: GetLockInfo is called
CmdDoctor(p) ==
    /\ Running(p, "idle") /\ wl[p].st = "none"
    /\ wl' = [wl EXCEPT ![p] = [NoCmd EXCEPT !.st = "repair", !.cmd = "doctor"]]
    /\ Goto(p, "g_exists")
    /\ loc' = [loc EXCEPT ![p] = NoLoc]
    /\ UNCHANGED <<fs, lockFile, res, cmdFrame>>

\* GetLockInfo: fs.FileExists(lockPath); without a file there is no lock
DocExists(p) ==
    /\ Running(p, "g_exists")
    /\ loc' = [loc EXCEPT ![p].saw = (lockFile.st # "absent")]
    /\ IF lockFile.st # "absent"
       THEN Goto(p, "g_read") /\ UNCHANGED wl
       ELSE /\ Goto(p, "idle")
            /\ wl' = [wl EXCEPT ![p].st = "returned", ![p].out = "no lock file"]
    /\ UNCHANGED <<fs, lockFile, res, cmdFrame>>

\* GetLockInfo: ReadLockInfo; checkLockFile returns on its error and on a
\* record of its own process, and calls IsStale otherwise
DocRead(p) ==
    /\ Running(p, "g_read")
    /\ \E info \in {ReadLockInfo(lockFile)} :
          IF ~info.ok \/ info.pid = p
          THEN /\ Goto(p, "idle")
               /\ wl' = [wl EXCEPT ![p].st = "returned",
                                   ![p].out = IF info.ok THEN "own lock" ELSE "error"]
               /\ UNCHANGED loc
          ELSE /\ Goto(p, "s_read")
               /\ loc' = [loc EXCEPT ![p] = [NoLoc EXCEPT !.back = "d_stale"]]
               /\ UNCHANGED wl
    /\ UNCHANGED <<fs, lockFile, res, cmdFrame>>

\* checkLockFile: IsStale returned; a lock that is not stale is reported,
\* a stale one is removed with ForceReleaseLock
DocStale(p) ==
    /\ Running(p, "d_stale")
    /\ IF loc[p].stale
       THEN Goto(p, "f_exists") /\ UNCHANGED wl
       ELSE /\ Goto(p, "idle")
            /\ wl' = [wl EXCEPT ![p].st = "returned", ![p].out = "lock held"]
    /\ UNCHANGED <<fs, lockFile, loc, res, cmdFrame>>

\* ForceReleaseLock: fs.FileExists(lockPath)
ForceExists(p) ==
    /\ Running(p, "f_exists")
    /\ IF lockFile.st # "absent"
       THEN Goto(p, "f_remove") /\ UNCHANGED wl
       ELSE /\ Goto(p, "idle")
            /\ wl' = [wl EXCEPT ![p].st = "returned", ![p].out = "removed"]
    /\ UNCHANGED <<fs, lockFile, loc, res, cmdFrame>>

\* ForceReleaseLock: os.Remove(lockPath)
ForceRemove(p) ==
    /\ Running(p, "f_remove")
    /\ IF lockFile.st = "absent"
       THEN /\ wl' = [wl EXCEPT ![p].st = "returned", ![p].out = "could not remove"]
            /\ UNCHANGED <<lockFile, loc>>
       ELSE /\ lockFile' = Absent
            /\ loc' = [Unlinked EXCEPT ![p].removed = TRUE, ![p].was = lockFile]
            /\ wl' = [wl EXCEPT ![p].st = "returned", ![p].out = "removed"]
    /\ Goto(p, "idle")
    /\ UNCHANGED <<fs, res, cmdFrame>>

\* core.ClearStaleLock is called
CmdClear(p) ==
    /\ Running(p, "idle") /\ wl[p].st = "none"
    /\ wl' = [wl EXCEPT ![p] = [NoCmd EXCEPT !.st = "repair", !.cmd = "clear"]]
    /\ Goto(p, "c_exists")
    /\ loc' = [loc EXCEPT ![p] = NoLoc]
    /\ UNCHANGED <<fs, lockFile, res, cmdFrame>>

\* ClearStaleLock: fs.FileExists(lockPath), then IsStale
ClearExists(p) ==
    /\ Running(p, "c_exists")
    /\ IF lockFile.st # "absent"
       THEN /\ Goto(p, "s_read")
            /\ loc' = [loc EXCEPT ![p] = [NoLoc EXCEPT !.saw = TRUE, !.back = "c_stale"]]
            /\ UNCHANGED wl
       ELSE /\ Goto(p, "idle")
            /\ wl' = [wl EXCEPT ![p].st = "returned", ![p].out = "no lock file"]
            /\ UNCHANGED loc
    /\ UNCHANGED <<fs, lockFile, res, cmdFrame>>

\* ClearStaleLock: IsStale returned
ClearStale(p) ==
    /\ Running(p, "c_stale")
    /\ IF loc[p].stale
       THEN Goto(p, "c_remove") /\ UNCHANGED wl
       ELSE /\ Goto(p, "idle")
            /\ wl' = [wl EXCEPT ![p].st = "returned", ![p].out = "lock is not stale"]
    /\ UNCHANGED <<fs, lockFile, loc, res, cmdFrame>>

\* ClearStaleLock: os.Remove(lockPath)
ClearRemove(p) ==
    /\ Running(p, "c_remove")
    /\ IF lockFile.st = "absent"
       THEN /\ wl' = [wl EXCEPT ![p].st = "returned", ![p].out = "could not remove"]
            /\ UNCHANGED <<lockFile, loc>>
       ELSE /\ lockFile' = Absent
            /\ loc' = [Unlinked EXCEPT ![p].removed = TRUE, ![p].was = lockFile]
            /\ wl' = [wl EXCEPT ![p].st = "returned", ![p].out = "removed"]
    /\ Goto(p, "idle")
    /\ UNCHANGED <<fs, res, cmdFrame>>

CmdNext ==
    \/ \E p \in Procs : CmdAdd(p)
    \/ \E p \in Procs : CmdClone(p)
    \/ \E p \in Procs : CmdDoctor(p)
    \/ \E p \in Procs : CmdClear(p)
    \/ \E p \in Procs : AcqExists(p)
    \/ \E p \in Procs : AcqRead(p)
    \/ \E p \in Procs : AcqProbe(p)
    \/ \E p \in Procs : AcqRead2(p)
    \/ \E p \in Procs : AcqCreate(p)
    \/ \E p \in Procs : AcqWrite(p)
    \/ \E p \in Procs : CmdAcquireFailed(p)
    \/ \E p \in Procs : CmdMutate(p)
    \/ \E p \in Procs : RelExists(p)
    \/ \E p \in Procs : RelRead(p)
    \/ \E p \in Procs : RelRemove(p)
    \/ \E p \in Procs : CmdReturn(p)
    \/ \E p \in Procs : DocExists(p)
    \/ \E p \in Procs : DocRead(p)
    \/ \E p \in Procs : IsStaleRead(p)
    \/ \E p \in Procs : IsStaleProbe(p)
    \/ \E p \in Procs : DocStale(p)
    \/ \E p \in Procs : ForceExists(p)
    \/ \E p \in Procs : ForceRemove(p)
    \/ \E p \in Procs : ClearExists(p)
    \/ \E p \in Procs : ClearStale(p)
    \/ \E p \in Procs : ClearRemove(p)
    \/ \E p \in Procs : Kill(p)

SpecCmd == CmdInit /\ [][CmdNext]_vars

\* ------------------------------------------------------------------------
\* Properties of the commands (checked under SpecCmd)
\* ------------------------------------------------------------------------
Mutating == {"add", "clone"}

\* process p takes the step
StepOf(p) == pc'[p] # pc[p] \/ wl'[p] # wl[p]

\* the lock record is that of a live process that holds the lock
HeldBy(q) == OwnRecord(q) /\ alive[q] /\ pc[q] = "held"

\* C29: a mutating command changes the data directory or the store only
\* while the lock record names its own process; when its AcquireLock failed
\* it has changed nothing; no step of it removes or overwrites the lock
\* record of another live process that holds the lock; and when it returns
\* after a successful AcquireLock the lock record does not name it any more.
C29_MutateUnderLock ==
    [][ \A p \in Procs : (StepOf(p) /\ wl'[p].cmd \in Mutating) =>
          /\ wl'[p].mutated => wl'[p].owned
          /\ wl'[p].acq # "" => ~wl'[p].mutated
          /\ \A q \in Procs \ {p} : HeldBy(q) => lockFile' = lockFile
          /\ (wl[p].st = "release" /\ wl'[p].st = "returned") =>
                ~(lockFile'.st = "rec" /\ lockFile'.pid = p) ]_vars

\* what IsStale calls stale, evaluated on the lock file as it is now:
\* unreadable, older than an hour, or of a process that does not exist
StaleNow(file) ==
    \/ file.st # "rec"
    \/ clock - file.ts > StaleAge
    \/ ~isProcessAlive(file.pid)

\* C30: when ForceReleaseLock (called by doctor --fix) or ClearStaleLock
\* removes the lock file, the file is stale at that moment; and
\* ForceReleaseLock runs in the doctor command only.
C30_RepairOnlyStale ==
    [][ \A p \in Procs :
          /\ ( /\ pc[p] \in {"f_remove", "c_remove"} /\ pc'[p] = "idle"
               /\ lockFile.st # "absent" /\ lockFile' = Absent )
             => StaleNow(lockFile)
          /\ pc'[p] \in {"f_exists", "f_remove"} => wl'[p].cmd = "doctor" ]_vars

====
